---- MODULE Spec2Model ----
(***************************************************************************)
(* Model of the OSP protocol core (aoosp): telegram constructors and       *)
(* destructors (aoosp_send.cpp), the send functions built from them, and   *)
(* the multi-telegram procedures of aoosp_exec.cpp driven by one host      *)
(* thread against a transport (aospi_tx / aospi_txrx) and a chain of       *)
(* nodes whose answers and failures are chosen nondeterministically.       *)
(***************************************************************************)
EXTENDS Integers, Sequences, FiniteSets, TLC

VARIABLES
  pc,          \* position of the host thread inside the running procedure
  args,        \* arguments of the running procedure
  result,      \* local `result` of the running procedure / its return value
  log,         \* the aoosp_send_xxx / aospi_dirmux calls made by this run
  testpw,      \* aoosp_said_testpw (uint64, as 8 little endian bytes)
  auth,        \* per node: node is in authenticated state
  authEntry,   \* auth as it was when the running procedure was called
  resource_pw, \* local flag of aoosp_exec_setotp
  buf,         \* local buf[8] of aoosp_exec_setotp (<<>> while unwritten)
  last_cache,  \* aoosp_exec_resetinit_last_
  dirmux,      \* direction mux of the transport: "loop", "bidir"
  out_last,    \* *last of aoosp_exec_resetinit ("null" when last==NULL)
  out_loop,    \* *loop of aoosp_exec_resetinit ("null" when loop==NULL)
  returned,    \* what the procedure that returned last handed to its caller
  flags,       \* local `flags` of aoosp_exec_i2cwrite8 / aoosp_exec_i2cread8
  tries,       \* local `tries` of aoosp_exec_i2cwrite8 / aoosp_exec_i2cread8
  aoosp_loglevel, \* static aoosp_loglevel: 0 none, 1 args, 2 tele
  enable       \* local `enable` of aoosp_exec_i2cpower, *enable of the getters

vars == << pc, args, result, log, testpw, auth, authEntry, resource_pw, buf,
           last_cache, dirmux, out_last, out_loop, returned, flags, tries,
           aoosp_loglevel, enable >>

---------------------------------------------------------------------------
(* Bounds of the model *)

\* Number of nodes on the chain (addresses 1..NumNodes).
NumNodes == 2

\* Largest chain length a node reports in its INIT response.
MaxLast == 2

Nodes == 1..NumNodes

---------------------------------------------------------------------------
(* Bit operations on unsigned integers *)

RECURSIVE BitAnd(_, _)
BitAnd(a, b) ==
  IF a = 0 \/ b = 0 THEN 0
  ELSE (a % 2) * (b % 2) + 2 * BitAnd(a \div 2, b \div 2)

RECURSIVE BitOr(_, _)
BitOr(a, b) ==
  IF a = 0 THEN b
  ELSE IF b = 0 THEN a
  ELSE (IF a % 2 = 1 \/ b % 2 = 1 THEN 1 ELSE 0) + 2 * BitOr(a \div 2, b \div 2)

RECURSIVE BitXor(_, _)
BitXor(a, b) ==
  IF a = 0 THEN b
  ELSE IF b = 0 THEN a
  ELSE ((a + b) % 2) + 2 * BitXor(a \div 2, b \div 2)

BITS_MASK(n) == 2^n - 1

BITS_SLICE(v, lo, hi) == BitAnd(v \div 2^lo, BITS_MASK(hi - lo))

\* Mutant: payload sizes are not clamped to the 3 bits of the PSI.
SIZE2PSI_NoClamp(payloadsize) == payloadsize

SIZE2PSI(payloadsize) == IF payloadsize < 8 THEN payloadsize ELSE 7

\* tele->data[i], the telegram being the sequence of its `size` bytes
D(tele, i) == tele[i + 1]

TELEPSI(tele) == BITS_SLICE(D(tele, 1), 0, 2) * 2 + BITS_SLICE(D(tele, 2), 7, 8)

---------------------------------------------------------------------------
(* Checksum: CRC-8, polynomial 0x2F, start value 0 *)

crc_shift(c) ==
  IF c >= 128 THEN BitXor((c * 2) % 256, 47) ELSE (c * 2) % 256

RECURSIVE crc_bits(_, _)
crc_bits(c, n) == IF n = 0 THEN c ELSE crc_bits(crc_shift(c), n - 1)

crc_table == [b \in 0..255 |-> crc_bits(b, 8)]

RECURSIVE aoosp_crc(_, _)
aoosp_crc(data, size) ==
  IF size = 0 THEN 0
  ELSE crc_table[BitXor(aoosp_crc(data, size - 1), data[size])]

\* tele->data[size-1] = aoosp_crc( tele->data , tele->size - 1 )
StampCrc(body) == Append(body, aoosp_crc(body, Len(body)))

---------------------------------------------------------------------------
(* Addresses *)

AOOSP_ADDR_ISBROADCAST(addr) == addr = 0
AOOSP_ADDR_ISUNICAST(addr) == 1 <= addr /\ addr <= 1007

\* Mutant: the group range runs up to 0x3FF instead of AOOSP_ADDR_GROUP14.
OAOSP_ADDR_ISMULTICAST_UpTo3FF(addr) == 1008 <= addr /\ addr <= 1023

OAOSP_ADDR_ISMULTICAST(addr) == 1008 <= addr /\ addr <= 1022
AOOSP_ADDR_ISOK(addr) ==
  \/ AOOSP_ADDR_ISBROADCAST(addr)
  \/ AOOSP_ADDR_ISUNICAST(addr)
  \/ OAOSP_ADDR_ISMULTICAST(addr)

\* Mutant: the low address bits are not shifted past the two PSI bits.
TeleHeader_AddrUnshifted(addr, payloadsize, tid) ==
  << BitOr(160, BITS_SLICE(addr, 6, 10)),
     BitOr(BITS_SLICE(addr, 0, 6), BITS_SLICE(SIZE2PSI(payloadsize), 1, 3)),
     BitOr(BITS_SLICE(SIZE2PSI(payloadsize), 0, 1) * 128, tid) >>

\* The three header bytes every constructor builds.
TeleHeader(addr, payloadsize, tid) ==
  << BitOr(160, BITS_SLICE(addr, 6, 10)),
     BitOr(BITS_SLICE(addr, 0, 6) * 4, BITS_SLICE(SIZE2PSI(payloadsize), 1, 3)),
     BitOr(BITS_SLICE(SIZE2PSI(payloadsize), 0, 1) * 128, tid) >>

\* The address field of a telegram on the wire.
TeleAddr(tele) == BITS_SLICE(D(tele, 0), 0, 4) * 64 + BITS_SLICE(D(tele, 1), 2, 8)

\* The telegram id field of a telegram on the wire.
TeleTid(tele) == BITS_SLICE(D(tele, 2), 0, 7)

ConFail(res) == [res |-> res, tele |-> << >>]
ConOk(tele) == [res |-> "ok", tele |-> tele]

---------------------------------------------------------------------------
(* Telegram constructors and destructors (aoosp_con_xxx, aoosp_des_xxx).   *)
(* A constructor yields [res, tele]; the send functions always pass a      *)
(* telegram buffer, so the tele==0 check never fires.                      *)

\* Telegram 00 RESET
aoosp_con_reset(addr) ==
  IF ~AOOSP_ADDR_ISOK(addr) THEN ConFail("osp_addr")
  ELSE ConOk(StampCrc(TeleHeader(addr, 0, 0)))

\* Telegram 02 INITBIDIR (respsize = 4+2)
aoosp_con_initbidir(addr) ==
  IF ~AOOSP_ADDR_ISOK(addr) THEN ConFail("osp_addr")
  ELSE ConOk(StampCrc(TeleHeader(addr, 0, 2)))

\* Checks of a response with payload size 2 and telegram id tid, in the
\* order of the code: size, PSI, preamble, telegram id, CRC.
DesInit(tele, tid) ==
  IF Len(tele) # 4 + 2 THEN [res |-> "osp_size", last |-> 0, temp |-> 0, stat |-> 0]
  ELSE IF TELEPSI(tele) # SIZE2PSI(2) THEN [res |-> "osp_psi", last |-> 0, temp |-> 0, stat |-> 0]
  ELSE IF BITS_SLICE(D(tele, 0), 4, 8) # 10 THEN [res |-> "osp_preamble", last |-> 0, temp |-> 0, stat |-> 0]
  ELSE IF BITS_SLICE(D(tele, 2), 0, 7) # tid THEN [res |-> "osp_tid", last |-> 0, temp |-> 0, stat |-> 0]
  ELSE IF aoosp_crc(tele, Len(tele)) # 0 THEN [res |-> "osp_crc", last |-> 0, temp |-> 0, stat |-> 0]
  ELSE [res |-> "ok",
        last |-> BitOr(BITS_SLICE(D(tele, 0), 0, 4) * 64, BITS_SLICE(D(tele, 1), 2, 8)),
        temp |-> D(tele, 3),
        stat |-> D(tele, 4)]

aoosp_des_initbidir(tele) == DesInit(tele, 2)

\* Telegram 03 INITLOOP (respsize = 4+2)
aoosp_con_initloop(addr) ==
  IF ~AOOSP_ADDR_ISOK(addr) THEN ConFail("osp_addr")
  ELSE ConOk(StampCrc(TeleHeader(addr, 0, 3)))

aoosp_des_initloop(tele) == DesInit(tele, 3)

\* Telegram 58 READOTP (respsize = 4+8)
aoosp_con_readotp(addr, otpaddr) ==
  IF ~AOOSP_ADDR_ISOK(addr) THEN ConFail("osp_addr")
  ELSE IF otpaddr > 31 THEN ConFail("osp_arg")
  ELSE ConOk(StampCrc(TeleHeader(addr, 1, 88) \o << otpaddr >>))

\* Mutant: the row is copied in wire order, not reversed.
aoosp_des_readotp_WireOrder(tele, haveBuf, size) ==
  IF ~haveBuf THEN [res |-> "outargnull", buf |-> << >>]
  ELSE IF Len(tele) # 4 + 8 THEN [res |-> "osp_size", buf |-> << >>]
  ELSE IF TELEPSI(tele) # SIZE2PSI(8) THEN [res |-> "osp_psi", buf |-> << >>]
  ELSE IF BITS_SLICE(D(tele, 0), 4, 8) # 10 THEN [res |-> "osp_preamble", buf |-> << >>]
  ELSE IF BITS_SLICE(D(tele, 2), 0, 7) # 88 THEN [res |-> "osp_tid", buf |-> << >>]
  ELSE IF aoosp_crc(tele, Len(tele)) # 0 THEN [res |-> "osp_crc", buf |-> << >>]
  ELSE IF size < 1 \/ size > 8 THEN [res |-> "osp_arg", buf |-> << >>]
  ELSE [res |-> "ok", buf |-> [i \in 1..size |-> D(tele, 3 + (i - 1))]]

\* buf[i] = tele->data[10-i] for i < size; yields [res, buf]. haveBuf tells
\* whether the caller passed a non-NULL buf.
aoosp_des_readotp(tele, haveBuf, size) ==
  IF ~haveBuf THEN [res |-> "outargnull", buf |-> << >>]
  ELSE IF Len(tele) # 4 + 8 THEN [res |-> "osp_size", buf |-> << >>]
  ELSE IF TELEPSI(tele) # SIZE2PSI(8) THEN [res |-> "osp_psi", buf |-> << >>]
  ELSE IF BITS_SLICE(D(tele, 0), 4, 8) # 10 THEN [res |-> "osp_preamble", buf |-> << >>]
  ELSE IF BITS_SLICE(D(tele, 2), 0, 7) # 88 THEN [res |-> "osp_tid", buf |-> << >>]
  ELSE IF aoosp_crc(tele, Len(tele)) # 0 THEN [res |-> "osp_crc", buf |-> << >>]
  ELSE IF size < 1 \/ size > 8 THEN [res |-> "osp_arg", buf |-> << >>]
  ELSE [res |-> "ok", buf |-> [i \in 1..size |-> D(tele, 10 - (i - 1))]]

\* Telegram 59 SETOTP: tele->data[9-i] = buf[i] for i < size, data[10] = otpaddr
aoosp_con_setotp(addr, otpaddr, b, size) ==
  IF ~AOOSP_ADDR_ISOK(addr) THEN ConFail("osp_addr")
  ELSE IF otpaddr > 31 THEN ConFail("osp_arg")
  ELSE IF size # 7 THEN ConFail("osp_arg")
  ELSE ConOk(StampCrc(TeleHeader(addr, 8, 89)
                      \o [k \in 1..size |-> b[(size - k) + 1]]
                      \o << otpaddr >>))

\* Telegram 5F SETTESTPW: pw is a uint64 given as its 8 little endian bytes;
\* memcpy( &(tele->data[3]), &pw, 6) copies the low 6 of them.
aoosp_con_settestpw(addr, pw) ==
  IF ~AOOSP_ADDR_ISOK(addr) THEN ConFail("osp_addr")
  ELSE IF pw[7] # 0 \/ pw[8] # 0 THEN ConFail("osp_arg")
  ELSE ConOk(StampCrc(TeleHeader(addr, 6, 95) \o SubSeq(pw, 1, 6)))

\* Mutant: the preamble is checked before size and PSI.
DesCheck_PreambleFirst(tele, outnull, payloadsize, tid) ==
  IF outnull THEN "outargnull"
  ELSE IF Len(tele) >= 1 /\ BITS_SLICE(D(tele, 0), 4, 8) # 10 THEN "osp_preamble"
  ELSE IF Len(tele) # 4 + payloadsize THEN "osp_size"
  ELSE IF TELEPSI(tele) # SIZE2PSI(payloadsize) THEN "osp_psi"
  ELSE IF BITS_SLICE(D(tele, 2), 0, 7) # tid THEN "osp_tid"
  ELSE IF aoosp_crc(tele, Len(tele)) # 0 THEN "osp_crc"
  ELSE "ok"

\* Mutant: the CRC of the frame is not checked.
DesCheck_NoCrc(tele, outnull, payloadsize, tid) ==
  IF outnull THEN "outargnull"
  ELSE IF Len(tele) # 4 + payloadsize THEN "osp_size"
  ELSE IF TELEPSI(tele) # SIZE2PSI(payloadsize) THEN "osp_psi"
  ELSE IF BITS_SLICE(D(tele, 0), 4, 8) # 10 THEN "osp_preamble"
  ELSE IF BITS_SLICE(D(tele, 2), 0, 7) # tid THEN "osp_tid"
  ELSE "ok"

\* The checks every destructor starts with, in the order of the code: output
\* pointers, size, PSI, preamble, telegram id, CRC. outnull tells whether the
\* caller passed NULL for an output parameter.
DesCheck(tele, outnull, payloadsize, tid) ==
  IF outnull THEN "outargnull"
  ELSE IF Len(tele) # 4 + payloadsize THEN "osp_size"
  ELSE IF TELEPSI(tele) # SIZE2PSI(payloadsize) THEN "osp_psi"
  ELSE IF BITS_SLICE(D(tele, 0), 4, 8) # 10 THEN "osp_preamble"
  ELSE IF BITS_SLICE(D(tele, 2), 0, 7) # tid THEN "osp_tid"
  ELSE IF aoosp_crc(tele, Len(tele)) # 0 THEN "osp_crc"
  ELSE "ok"

\* Telegram 07 IDENTIFY (respsize = 4+4); id is kept as its 4 bytes, the most
\* significant first.
aoosp_con_identify(addr) ==
  IF ~AOOSP_ADDR_ISOK(addr) THEN ConFail("osp_addr")
  ELSE ConOk(StampCrc(TeleHeader(addr, 0, 7)))

aoosp_des_identify(tele, haveId) ==
  LET c == DesCheck(tele, ~haveId, 4, 7) IN
  IF c # "ok" THEN [res |-> c, id |-> << >>]
  ELSE [res |-> "ok", id |-> << D(tele, 3), D(tele, 4), D(tele, 5), D(tele, 6) >>]

\* Telegram 0C READMULT (respsize = 4+2)
aoosp_con_readmult(addr) ==
  IF ~AOOSP_ADDR_ISOK(addr) THEN ConFail("osp_addr")
  ELSE ConOk(StampCrc(TeleHeader(addr, 0, 12)))

aoosp_des_readmult(tele, haveGroups) ==
  LET c == DesCheck(tele, ~haveGroups, 2, 12) IN
  IF c # "ok" THEN [res |-> c, groups |-> 0]
  ELSE [res |-> "ok", groups |-> BitOr(D(tele, 3) * 256, D(tele, 4))]

\* Telegram 0D SETMULT: groups & ~0x7FFF is non-zero for groups >= 0x8000
aoosp_con_setmult(addr, groups) ==
  IF ~AOOSP_ADDR_ISOK(addr) THEN ConFail("osp_addr")
  ELSE IF groups \div 32768 # 0 THEN ConFail("osp_arg")
  ELSE ConOk(StampCrc(TeleHeader(addr, 2, 13)
                      \o << BITS_SLICE(groups, 8, 16), BITS_SLICE(groups, 0, 8) >>))

\* Telegram 18 I2CREAD
aoosp_con_i2cread8(addr, daddr7, raddr, count) ==
  IF ~AOOSP_ADDR_ISOK(addr) THEN ConFail("osp_addr")
  ELSE IF daddr7 > 127 THEN ConFail("osp_arg")
  ELSE IF count < 1 \/ count > 8 THEN ConFail("osp_arg")
  ELSE ConOk(StampCrc(TeleHeader(addr, 3, 24)
                      \o << (daddr7 * 2) % 256, raddr, count >>))

\* Mutant: total payloads of 5 and 7 bytes pass the constructor.
aoosp_con_i2cwrite8_FiveSevenAllowed(addr, daddr7, raddr, haveBuf, b, count) ==
  IF ~haveBuf THEN ConFail("outargnull")
  ELSE IF ~AOOSP_ADDR_ISOK(addr) THEN ConFail("osp_addr")
  ELSE IF daddr7 > 127 THEN ConFail("osp_arg")
  ELSE IF count < 1 THEN ConFail("osp_arg")
  ELSE IF count + 2 > 8 THEN ConFail("osp_arg")
  ELSE ConOk(StampCrc(TeleHeader(addr, 2 + count, 25)
                      \o << (daddr7 * 2) % 256, raddr >>
                      \o [i \in 1..count |-> b[i]]))

\* Telegram 19 I2CWRITE: b is the caller's buffer (<< >> for NULL), of which
\* the first count bytes are sent.
aoosp_con_i2cwrite8(addr, daddr7, raddr, haveBuf, b, count) ==
  IF ~haveBuf THEN ConFail("outargnull")
  ELSE IF ~AOOSP_ADDR_ISOK(addr) THEN ConFail("osp_addr")
  ELSE IF daddr7 > 127 THEN ConFail("osp_arg")
  ELSE IF count < 1 THEN ConFail("osp_arg")
  ELSE IF count + 2 > 8 THEN ConFail("osp_arg")
  ELSE IF count + 2 = 5 \/ count + 2 = 7 THEN ConFail("osp_arg")
  ELSE ConOk(StampCrc(TeleHeader(addr, 2 + count, 25)
                      \o << (daddr7 * 2) % 256, raddr >>
                      \o [i \in 1..count |-> b[i]]))

\* Telegram 1E READLAST (respsize = 4+8): buf[i] = tele->data[11-size+i]
aoosp_con_readlast(addr) ==
  IF ~AOOSP_ADDR_ISOK(addr) THEN ConFail("osp_addr")
  ELSE ConOk(StampCrc(TeleHeader(addr, 0, 30)))

aoosp_des_readlast(tele, haveBuf, size) ==
  LET c == DesCheck(tele, ~haveBuf, 8, 30) IN
  IF c # "ok" THEN [res |-> c, buf |-> << >>]
  ELSE IF size < 1 \/ size > 8 THEN [res |-> "osp_arg", buf |-> << >>]
  ELSE [res |-> "ok", buf |-> [i \in 1..size |-> D(tele, 11 - size + (i - 1))]]

\* Telegram 40 READSTAT (respsize = 4+1)
aoosp_con_readstat(addr) ==
  IF ~AOOSP_ADDR_ISOK(addr) THEN ConFail("osp_addr")
  ELSE ConOk(StampCrc(TeleHeader(addr, 0, 64)))

aoosp_des_readstat(tele, haveStat) ==
  LET c == DesCheck(tele, ~haveStat, 1, 64) IN
  IF c # "ok" THEN [res |-> c, stat |-> 0]
  ELSE [res |-> "ok", stat |-> D(tele, 3)]

\* Telegram 4E READPWM (respsize = 4+6)
aoosp_con_readpwm(addr) ==
  IF ~AOOSP_ADDR_ISOK(addr) THEN ConFail("osp_addr")
  ELSE ConOk(StampCrc(TeleHeader(addr, 0, 78)))

\* Mutant: the three daytime flags are put together in reversed order.
aoosp_des_readpwm_DaytimesReversed(tele, haveOut) ==
  LET c == DesCheck(tele, ~haveOut, 6, 78) IN
  IF c # "ok" THEN [res |-> c, red |-> 0, green |-> 0, blue |-> 0, daytimes |-> 0]
  ELSE [res |-> "ok",
        red |-> BitOr(BITS_SLICE(D(tele, 3), 0, 7) * 256, D(tele, 4)),
        green |-> BitOr(BITS_SLICE(D(tele, 5), 0, 7) * 256, D(tele, 6)),
        blue |-> BitOr(BITS_SLICE(D(tele, 7), 0, 7) * 256, D(tele, 8)),
        daytimes |-> BitOr(BitOr(BITS_SLICE(D(tele, 7), 7, 8) * 4,
                                 BITS_SLICE(D(tele, 5), 7, 8) * 2),
                           BITS_SLICE(D(tele, 3), 7, 8))]

aoosp_des_readpwm(tele, haveOut) ==
  LET c == DesCheck(tele, ~haveOut, 6, 78) IN
  IF c # "ok" THEN [res |-> c, red |-> 0, green |-> 0, blue |-> 0, daytimes |-> 0]
  ELSE [res |-> "ok",
        red |-> BitOr(BITS_SLICE(D(tele, 3), 0, 7) * 256, D(tele, 4)),
        green |-> BitOr(BITS_SLICE(D(tele, 5), 0, 7) * 256, D(tele, 6)),
        blue |-> BitOr(BITS_SLICE(D(tele, 7), 0, 7) * 256, D(tele, 8)),
        daytimes |-> BitOr(BitOr(BITS_SLICE(D(tele, 3), 7, 8) * 4,
                                 BITS_SLICE(D(tele, 5), 7, 8) * 2),
                           BITS_SLICE(D(tele, 7), 7, 8))]

\* Telegram 4F SETPWM: x & ~BITS_MASK(n) is non-zero for x >= 2^n
aoosp_con_setpwm(addr, red, green, blue, daytimes) ==
  IF ~AOOSP_ADDR_ISOK(addr) THEN ConFail("osp_addr")
  ELSE IF red \div 2^15 # 0 THEN ConFail("osp_arg")
  ELSE IF green \div 2^15 # 0 THEN ConFail("osp_arg")
  ELSE IF blue \div 2^15 # 0 THEN ConFail("osp_arg")
  ELSE IF daytimes \div 2^3 # 0 THEN ConFail("osp_arg")
  ELSE ConOk(StampCrc(TeleHeader(addr, 6, 79)
       \o << BitOr(BITS_SLICE(daytimes, 2, 3) * 128, BITS_SLICE(red, 8, 15)),
             BITS_SLICE(red, 0, 8),
             BitOr(BITS_SLICE(daytimes, 1, 2) * 128, BITS_SLICE(green, 8, 15)),
             BITS_SLICE(green, 0, 8),
             BitOr(BITS_SLICE(daytimes, 0, 1) * 128, BITS_SLICE(blue, 8, 15)),
             BITS_SLICE(blue, 0, 8) >>))

\* Telegram 4F SETPWMCHN (same id as SETPWM, payload of 8 with a dummy byte)
aoosp_con_setpwmchn(addr, chn, red, green, blue) ==
  IF ~AOOSP_ADDR_ISOK(addr) THEN ConFail("osp_addr")
  ELSE IF chn # 0 /\ chn # 1 /\ chn # 2 THEN ConFail("osp_arg")
  ELSE ConOk(StampCrc(TeleHeader(addr, 8, 79)
       \o << chn, 255,
             BITS_SLICE(red, 8, 16), BITS_SLICE(red, 0, 8),
             BITS_SLICE(green, 8, 16), BITS_SLICE(green, 0, 8),
             BITS_SLICE(blue, 8, 16), BITS_SLICE(blue, 0, 8) >>))

\* Telegram 56 READI2CCFG (respsize = 4+1)
aoosp_con_readi2ccfg(addr) ==
  IF ~AOOSP_ADDR_ISOK(addr) THEN ConFail("osp_addr")
  ELSE ConOk(StampCrc(TeleHeader(addr, 0, 86)))

aoosp_des_readi2ccfg(tele, haveOut) ==
  LET c == DesCheck(tele, ~haveOut, 1, 86) IN
  IF c # "ok" THEN [res |-> c, flags |-> 0, speed |-> 0]
  ELSE [res |-> "ok",
        flags |-> BITS_SLICE(D(tele, 3), 4, 8),
        speed |-> BITS_SLICE(D(tele, 3), 0, 4)]

\* Telegram 57 SETI2CCFG: tele->data[3] = flags << 4 | speed (a uint8_t)
aoosp_con_seti2ccfg(addr, flags_, speed) ==
  IF ~AOOSP_ADDR_ISOK(addr) THEN ConFail("osp_addr")
  ELSE IF flags_ \div 16 # 0 THEN ConFail("osp_arg")
  ELSE IF speed \div 16 # 0 THEN ConFail("osp_arg")
  ELSE IF speed = 0 THEN ConFail("osp_arg")
  ELSE ConOk(StampCrc(TeleHeader(addr, 1, 87)
                      \o << BitOr((flags_ * 16) % 256, speed) >>))

---------------------------------------------------------------------------
(* The send functions (aoosp_send_xxx): construct, transmit, destruct,     *)
(* each step only when the accumulated result is still aoresult_ok.        *)
(* `spi` is what the transport call returns and `resp` the bytes it        *)
(* received; both are chosen by the environment.                           *)

\* Mutant: a step runs whatever the steps before it returned.
StepRuns_Always(acc) == TRUE

\* if( result==aoresult_ok ) xxx_result= ...
StepRuns(acc) == acc = "ok"

\* if( xxx_result!=aoresult_ok ) result= xxx_result;
Accumulate(acc, step) == IF step # "ok" THEN step ELSE acc

\* A send without response: con, aospi_tx. The entry records the result of
\* each step (aoresult_ok, its initial value, for a step that did not run),
\* whether the transport was called (sent) and the returned result (res).
SendTx(fn, arg, con, spi) ==
  LET con_result == con.res
      r1 == Accumulate("ok", con_result)
      spi_result == IF StepRuns(r1) THEN spi ELSE "ok"
      r2 == Accumulate(r1, spi_result)
  IN
  [fn     |-> fn,
   arg    |-> arg,
   tele   |-> con.tele,
   sent   |-> StepRuns(r1),
   resp   |-> << >>,
   con    |-> con_result,
   spi    |-> spi_result,
   desrun |-> FALSE,
   des    |-> "ok",
   out    |-> [res |-> "none"],
   res    |-> r2]

\* A send with response: con, aospi_txrx, des. `des` is what the destructor
\* yields on `resp` (its result and output parameters); it is used, and
\* recorded as `out`, only when the destructor runs.
SendTxRx(fn, arg, con, spi, resp, des) ==
  LET con_result == con.res
      r1 == Accumulate("ok", con_result)
      spi_result == IF StepRuns(r1) THEN spi ELSE "ok"
      r2 == Accumulate(r1, spi_result)
      des_result == IF StepRuns(r2) THEN des.res ELSE "ok"
      r3 == Accumulate(r2, des_result)
  IN
  [fn     |-> fn,
   arg    |-> arg,
   tele   |-> con.tele,
   sent   |-> StepRuns(r1),
   resp   |-> IF StepRuns(r2) THEN resp ELSE << >>,
   con    |-> con_result,
   spi    |-> spi_result,
   desrun |-> StepRuns(r2),
   des    |-> des_result,
   out    |-> IF StepRuns(r2) THEN des ELSE [res |-> "none"],
   res    |-> r3]

aoosp_send_reset(addr, spi) ==
  SendTx("reset", << >>, aoosp_con_reset(addr), spi)

aoosp_send_initloop(addr, spi, resp) ==
  SendTxRx("initloop", << >>, aoosp_con_initloop(addr), spi, resp,
           aoosp_des_initloop(resp))

aoosp_send_initbidir(addr, spi, resp) ==
  SendTxRx("initbidir", << >>, aoosp_con_initbidir(addr), spi, resp,
           aoosp_des_initbidir(resp))

aoosp_send_readotp(addr, otpaddr, haveBuf, size, spi, resp) ==
  SendTxRx("readotp", << otpaddr >>, aoosp_con_readotp(addr, otpaddr), spi, resp,
           aoosp_des_readotp(resp, haveBuf, size))

aoosp_send_setotp(addr, otpaddr, b, size, spi) ==
  SendTx("setotp", << otpaddr >>, aoosp_con_setotp(addr, otpaddr, b, size), spi)

aoosp_send_settestpw(addr, pw, spi) ==
  SendTx("settestpw", pw, aoosp_con_settestpw(addr, pw), spi)

aoosp_send_identify(addr, haveId, spi, resp) ==
  SendTxRx("identify", << >>, aoosp_con_identify(addr), spi, resp,
           aoosp_des_identify(resp, haveId))

aoosp_send_readmult(addr, haveGroups, spi, resp) ==
  SendTxRx("readmult", << >>, aoosp_con_readmult(addr), spi, resp,
           aoosp_des_readmult(resp, haveGroups))

aoosp_send_setmult(addr, groups, spi) ==
  SendTx("setmult", << groups >>, aoosp_con_setmult(addr, groups), spi)

aoosp_send_i2cread8(addr, daddr7, raddr, count, spi) ==
  SendTx("i2cread8", << daddr7, raddr, count >>,
         aoosp_con_i2cread8(addr, daddr7, raddr, count), spi)

aoosp_send_i2cwrite8(addr, daddr7, raddr, haveBuf, b, count, spi) ==
  SendTx("i2cwrite8", << daddr7, raddr, count >>,
         aoosp_con_i2cwrite8(addr, daddr7, raddr, haveBuf, b, count), spi)

aoosp_send_readlast(addr, haveBuf, size, spi, resp) ==
  SendTxRx("readlast", << size >>, aoosp_con_readlast(addr), spi, resp,
           aoosp_des_readlast(resp, haveBuf, size))

aoosp_send_readstat(addr, haveStat, spi, resp) ==
  SendTxRx("readstat", << >>, aoosp_con_readstat(addr), spi, resp,
           aoosp_des_readstat(resp, haveStat))

aoosp_send_readpwm(addr, haveOut, spi, resp) ==
  SendTxRx("readpwm", << >>, aoosp_con_readpwm(addr), spi, resp,
           aoosp_des_readpwm(resp, haveOut))

aoosp_send_setpwm(addr, red, green, blue, daytimes, spi) ==
  SendTx("setpwm", << red, green, blue, daytimes >>,
         aoosp_con_setpwm(addr, red, green, blue, daytimes), spi)

aoosp_send_setpwmchn(addr, chn, red, green, blue, spi) ==
  SendTx("setpwmchn", << chn, red, green, blue >>,
         aoosp_con_setpwmchn(addr, chn, red, green, blue), spi)

aoosp_send_readi2ccfg(addr, haveOut, spi, resp) ==
  SendTxRx("readi2ccfg", << >>, aoosp_con_readi2ccfg(addr), spi, resp,
           aoosp_des_readi2ccfg(resp, haveOut))

aoosp_send_seti2ccfg(addr, flags_, speed, spi) ==
  SendTx("seti2ccfg", << flags_, speed >>, aoosp_con_seti2ccfg(addr, flags_, speed), spi)

\* aospi_dirmux_set_loop / aospi_dirmux_set_bidir as an entry of the log
MuxCall(fn) ==
  [fn |-> fn, arg |-> << >>, tele |-> << >>, sent |-> FALSE, resp |-> << >>,
   res |-> "ok"]


---------------------------------------------------------------------------
(* Environment: what the transport returns and what arrives from the chain *)

\* Transport failures; aoresult_spi_noclock is the one resetinit branches on.
SpiErrors == {"spi_noclock", "spi_length"}

SpiResults == {"ok"} \cup SpiErrors

\* A received frame with its last byte (the CRC) corrupted.
Corrupt(tele) == [tele EXCEPT ![Len(tele)] = BitXor(@, 1)]

\* A received frame whose preamble nibble is 0x5 instead of 0xA (CRC valid).
WrongPreamble(tele) ==
  StampCrc([i \in 1..(Len(tele) - 1) |->
              IF i = 1 THEN 80 + BITS_SLICE(tele[1], 0, 4) ELSE tele[i]])

\* A received frame whose PSI has its lowest bit flipped (CRC valid).
WrongPsi(tele) ==
  StampCrc([i \in 1..(Len(tele) - 1) |->
              IF i = 3 THEN BitXor(tele[3], 128) ELSE tele[i]])

\* The response of the last node to INITLOOP / INITBIDIR: its address in the
\* address field, then temp and stat (values of the example at
\* aoosp_send.cpp:61).
InitResp(tid, last) == StampCrc(TeleHeader(last, 2, tid) \o << 0, 80 >>)

\* Frames aospi_txrx may hand back for an INIT with telegram id tid:
\* well-formed ones, and ones failing each check of the destructor (the
\* wrong id is that of the other INIT).
InitRespSet(tid) ==
  {InitResp(tid, l) : l \in 1..MaxLast}
  \cup {Corrupt(InitResp(tid, 1)), InitResp(5 - tid, 1),
        WrongPreamble(InitResp(tid, 1)), WrongPsi(InitResp(tid, 1))}

\* The test password stored in the SAID nodes. The host does not know it; it
\* is neither 0 (the "incorrect password" the code unsets with) nor the
\* placeholder AOOSP_SAID_TESTPW_UNKNOWN.
NodePw == << 18, 52, 86, 120, 154, 188 >>

\* The nodes a telegram with address field addr is executed by.
Addressed(addr) == IF addr = 0 THEN Nodes ELSE {n \in Nodes : n = addr}

\* Authentication state of the nodes after telegram tele arrived: SETTESTPW
\* (id 0x5F) with the stored password authenticates the addressed nodes,
\* with any other password it ends their authenticated state.
NodeReceive(a, tele) ==
  [n \in Nodes |->
     IF n \in Addressed(TeleAddr(tele)) /\ TeleTid(tele) = 95
     THEN SubSeq(tele, 4, 9) = NodePw
     ELSE a[n]]

\* aospi_tx: a telegram reaches the chain exactly when the call returns ok.
AfterTx(a, s) == IF s.sent /\ s.res = "ok" THEN NodeReceive(a, s.tele) ELSE a

\* Rows (8 bytes, buf[0] first) the addressed node may answer READOTP with.
OtpRows ==
  { << 1, 35, 69, 103, 137, 171, 205, 239 >>,
    << 254, 0, 0, 0, 0, 0, 0, 128 >> }

\* The READOTP response carrying row: payload big endian, so row reversed.
ReadOtpResp(addr, row) ==
  StampCrc(TeleHeader(addr, 8, 88) \o [k \in 1..8 |-> row[9 - k]])

\* Frames aospi_txrx may hand back for READOTP.
ReadOtpRespSet(addr) ==
  LET good == ReadOtpResp(addr, << 1, 35, 69, 103, 137, 171, 205, 239 >>) IN
  {ReadOtpResp(addr, row) : row \in OtpRows}
  \cup {Corrupt(good), WrongPreamble(good), WrongPsi(good),
        StampCrc(TeleHeader(addr, 8, 89) \o SubSeq(good, 4, 11))}

\* Values the host may put in the password store (8 little endian bytes):
\* the right one, 0, the placeholder, and one that needs more than 48 bits.
PwChoices ==
  { NodePw \o << 0, 0 >>,
    << 0, 0, 0, 0, 0, 0, 0, 0 >>,
    << 255, 255, 255, 255, 255, 255, 0, 0 >>,
    << 1, 0, 0, 0, 0, 0, 1, 0 >> }

\* Arguments the host calls aoosp_exec_setotp with.
AddrChoices == {0, 1, 1023}
OtpAddrChoices == {0, 12, 13, 31, 32, 255}
OrMaskChoices == {0, 1, 4}
AndMaskChoices == {255, 254}

---------------------------------------------------------------------------
(* State after construction *)

\* AOOSP_SAID_TESTPW_UNKNOWN = 0x0000FFffFFffFFff
AOOSP_SAID_TESTPW_UNKNOWN == << 255, 255, 255, 255, 255, 255, 0, 0 >>

Init ==
  /\ pc = "idle"
  /\ args = [fn |-> "none"]
  /\ result = "none"
  /\ log = << >>
  /\ testpw = AOOSP_SAID_TESTPW_UNKNOWN
  /\ auth = [n \in Nodes |-> FALSE]
  /\ authEntry = [n \in Nodes |-> FALSE]
  /\ resource_pw = 0
  /\ buf = << >>
  /\ last_cache = 0
  /\ dirmux \in {"loop", "bidir"}
  /\ out_last = << >>
  /\ out_loop = << >>
  /\ returned = [fn |-> "none"]
  /\ flags = 0
  /\ tries = 0
  /\ aoosp_loglevel = 0
  /\ enable = -1

\* The procedure returns to its caller; its locals and arguments go away.
Return ==
  /\ pc \in {"ri_ret", "otp_ret", "i2c_ret", "en_ret", "dump_ret"}
  /\ pc' = "idle"
  /\ args' = [fn |-> "none"]
  /\ result' = "none"
  /\ log' = << >>
  /\ resource_pw' = 0
  /\ buf' = << >>
  /\ out_last' = << >>
  /\ out_loop' = << >>
  /\ authEntry' = auth
  /\ returned' = [fn |-> args.fn, result |-> result, log |-> log,
                  out_last |-> out_last, out_loop |-> out_loop, buf |-> buf]
  /\ flags' = 0
  /\ tries' = 0
  /\ enable' = -1
  /\ UNCHANGED << testpw, aoosp_loglevel, auth, last_cache, dirmux >>

---------------------------------------------------------------------------
(* aoosp_exec_resetinit(last, loop) *)

\* Set "fail" values for output parameters; haveLast / haveLoop tell whether
\* the caller passed a non-NULL pointer.
\* Mutant: the cached chain length is not reset on entry.
RI_Call_CacheKept(haveLast, haveLoop) ==
  /\ pc = "idle"
  /\ returned' = [fn |-> "none"]
  /\ pc' = "ri_reset1"
  /\ args' = [fn |-> "resetinit", last |-> haveLast, loop |-> haveLoop]
  /\ result' = "none"
  /\ log' = << >>
  /\ out_last' = IF haveLast THEN << 0 >> ELSE << >>
  /\ out_loop' = IF haveLoop THEN << -1 >> ELSE << >>
  /\ authEntry' = auth
  /\ UNCHANGED << flags, tries, testpw, aoosp_loglevel, enable, auth,
                  resource_pw, buf, dirmux, last_cache >>

RI_Call(haveLast, haveLoop) ==
  /\ pc = "idle"
  /\ returned' = [fn |-> "none"]
  /\ pc' = "ri_reset1"
  /\ args' = [fn |-> "resetinit", last |-> haveLast, loop |-> haveLoop]
  /\ result' = "none"
  /\ log' = << >>
  /\ last_cache' = 0
  /\ out_last' = IF haveLast THEN << 0 >> ELSE << >>
  /\ out_loop' = IF haveLoop THEN << -1 >> ELSE << >>
  /\ authEntry' = auth
  /\ UNCHANGED << flags, tries, testpw, aoosp_loglevel, enable, auth, resource_pw, buf, dirmux >>

\* Mutant: a RESET without clock is treated like a silent INIT.
RI_AfterReset_NoClockGoesOn(res, next) ==
  IF res # "ok" /\ res # "spi_noclock" THEN "ri_ret" ELSE next

\* if( result!=aoresult_ok ) return result;   (after either RESET)
RI_AfterReset(res, next) == IF res # "ok" THEN "ri_ret" ELSE next

\* Mutant: the return after a successful INITLOOP is missing.
RI_AfterInitLoop_NoReturn(res) ==
  IF res # "ok" /\ res # "spi_noclock" THEN "ri_ret" ELSE "ri_reset2"

\* Mutant: no BiDir attempt after a silent INITLOOP.
RI_AfterInitLoop_NoFallback(res) == "ri_ret"

\* Mutant: every INITLOOP failure falls back to the BiDir attempt.
RI_AfterInitLoop_AnyError(res) == IF res = "ok" THEN "ri_ret" ELSE "ri_reset2"

\* After INITLOOP: ok returns, any error but aoresult_spi_noclock returns,
\* aoresult_spi_noclock goes on to the BiDir attempt.
RI_AfterInitLoop(res) ==
  IF res = "ok" THEN "ri_ret"
  ELSE IF res # "spi_noclock" THEN "ri_ret"
  ELSE "ri_reset2"

\* Mutant: every INITBIDIR failure is reported as a cabling error.
RI_Final_AllCabling(res) == IF res = "ok" THEN res ELSE "sys_cabling"

\* After INITBIDIR: what resetinit returns.
RI_Final(res) ==
  IF res = "ok" THEN res
  ELSE IF res # "spi_noclock" THEN res
  ELSE "sys_cabling"

\* Mutant: the length of a successful INIT is handed to the caller but not
\* recorded, the record keeps what it held.
RI_Recorded_Kept(cache, last_) == cache

\* aoosp_exec_resetinit_last_= last_;
RI_Recorded(cache, last_) == last_

\* First, try RESET for INITLOOP
RI_Reset1(spi) ==
  /\ pc = "ri_reset1"
  /\ LET s == aoosp_send_reset(0, spi) IN
       /\ log' = Append(log, s)
       /\ result' = s.res
       /\ pc' = RI_AfterReset(s.res, "ri_initloop")
  /\ UNCHANGED << returned, flags, tries, args, testpw, aoosp_loglevel, enable, auth, authEntry, resource_pw, buf, last_cache,
                  dirmux, out_last, out_loop >>

\* Try INITLOOP (recall to set mux)
RI_InitLoop(spi, resp) ==
  /\ pc = "ri_initloop"
  /\ dirmux' = "loop"
  /\ LET s == aoosp_send_initloop(1, spi, resp)
         d == aoosp_des_initloop(resp)
     IN
       /\ log' = log \o << MuxCall("dirmux_set_loop"), s >>
       /\ result' = s.res
       /\ IF s.res = "ok"
          THEN /\ last_cache' = RI_Recorded(last_cache, d.last)
               /\ out_last' = IF args.last THEN << d.last >> ELSE out_last
               /\ out_loop' = IF args.loop THEN << 1 >> ELSE out_loop
          ELSE UNCHANGED << last_cache, out_last, out_loop >>
       /\ pc' = RI_AfterInitLoop(s.res)
  /\ UNCHANGED << returned, flags, tries, args, testpw, aoosp_loglevel, enable, auth, authEntry, resource_pw, buf >>

\* Next, try RESET for INITBIDIR
RI_Reset2(spi) ==
  /\ pc = "ri_reset2"
  /\ LET s == aoosp_send_reset(0, spi) IN
       /\ log' = Append(log, s)
       /\ result' = s.res
       /\ pc' = RI_AfterReset(s.res, "ri_initbidir")
  /\ UNCHANGED << returned, flags, tries, args, testpw, aoosp_loglevel, enable, auth, authEntry, resource_pw, buf, last_cache,
                  dirmux, out_last, out_loop >>

\* Mutant: INITBIDIR is sent without switching the mux to BiDir.
RI_InitBidir_MuxNotSet(spi, resp) ==
  /\ pc = "ri_initbidir"
  /\ dirmux' = dirmux
  /\ LET s == aoosp_send_initbidir(1, spi, resp)
         d == aoosp_des_initbidir(resp)
     IN
       /\ log' = log \o << MuxCall("dirmux_set_bidir"), s >>
       /\ IF s.res = "ok"
          THEN /\ last_cache' = RI_Recorded(last_cache, d.last)
               /\ out_last' = IF args.last THEN << d.last >> ELSE out_last
               /\ out_loop' = IF args.loop THEN << 0 >> ELSE out_loop
          ELSE UNCHANGED << last_cache, out_last, out_loop >>
       /\ result' = RI_Final(s.res)
       /\ pc' = "ri_ret"
  /\ UNCHANGED << returned, flags, tries, args, testpw, aoosp_loglevel, enable, auth, authEntry, resource_pw, buf >>

\* Try INITBIDIR (recall to set mux); without answer: aoresult_sys_cabling
RI_InitBidir(spi, resp) ==
  /\ pc = "ri_initbidir"
  /\ dirmux' = "bidir"
  /\ LET s == aoosp_send_initbidir(1, spi, resp)
         d == aoosp_des_initbidir(resp)
     IN
       /\ log' = log \o << MuxCall("dirmux_set_bidir"), s >>
       /\ IF s.res = "ok"
          THEN /\ last_cache' = RI_Recorded(last_cache, d.last)
               /\ out_last' = IF args.last THEN << d.last >> ELSE out_last
               /\ out_loop' = IF args.loop THEN << 0 >> ELSE out_loop
          ELSE UNCHANGED << last_cache, out_last, out_loop >>
       /\ result' = RI_Final(s.res)
       /\ pc' = "ri_ret"
  /\ UNCHANGED << returned, flags, tries, args, testpw, aoosp_loglevel, enable, auth, authEntry, resource_pw, buf >>

\* uint16_t aoosp_exec_resetinit_last()
aoosp_exec_resetinit_last == last_cache

NextInit ==
  \/ \E haveLast \in BOOLEAN, haveLoop \in BOOLEAN : RI_Call(haveLast, haveLoop)
  \/ \E spi \in SpiResults : RI_Reset1(spi)
  \/ \E spi \in SpiResults, resp \in InitRespSet(3) : RI_InitLoop(spi, resp)
  \/ \E spi \in SpiResults : RI_Reset2(spi)
  \/ \E spi \in SpiResults, resp \in InitRespSet(2) : RI_InitBidir(spi, resp)
  \/ Return

\* The host runs chain discovery again and again.
SpecInit == Init /\ [][NextInit]_vars


---------------------------------------------------------------------------
(* aoosp_said_testpw_set(pw) and aoosp_exec_setotp(addr, otpaddr, ormask, andmask) *)

aoosp_said_testpw_get == testpw

aoosp_said_testpw_set(pw) ==
  /\ pc = "idle"
  /\ testpw' = pw
  /\ UNCHANGED << returned, flags, tries, aoosp_loglevel, enable, pc, args, result, log,
                  auth, authEntry, resource_pw, buf,
                  last_cache, dirmux, out_last, out_loop >>

\* Mutant: the upper limit of the customer area is off by one.
OtpAddrRejected_OffByOne(otpaddr) == otpaddr < 13 \/ otpaddr > 32

\* if( otpaddr<0x0D || otpaddr>0x1F ) return aoresult_osp_arg;
OtpAddrRejected(otpaddr) == otpaddr < 13 \/ otpaddr > 31

\* Mutant: the password is never unset.
NeedsCleanup_Never(rpw) == FALSE

\* Mutant: the password is unset on every exit path.
NeedsCleanup_Always(rpw) == TRUE

\* free_resources: if( resource_pw ) ...
NeedsCleanup(rpw) == rpw # 0

\* Mutant: a failing step returns directly instead of jumping to
\* free_resources.
OTP_After_ReturnOnError(res, rpw, next) == IF res # "ok" THEN "otp_ret" ELSE next

\* Where the code goes after a step with result res: an error jumps to
\* free_resources, which sends the cleanup telegram only with resource_pw set.
OTP_After(res, rpw, next) ==
  IF res # "ok" THEN (IF NeedsCleanup(rpw) THEN "otp_free" ELSE "otp_ret")
  ELSE next

\* Mutant: the or-mask is applied before the and-mask.
MaskByte_OrFirst(old, andmask, ormask) == BitAnd(BitOr(old, ormask), andmask)

\* buf[0] = (buf[0] & andmask) | ormask;
MaskByte(old, andmask, ormask) == BitOr(BitAnd(old, andmask), ormask)

\* Mutant: the result of the cleanup telegram is returned.
OTP_Result_OfCleanup(res, cleanup) == IF res = "ok" THEN cleanup ELSE res

\* aoosp_send_settestpw(addr,0); // no further error handling here
\* return result;
OTP_Result(res, cleanup) == res

OTP_Call(addr, otpaddr, ormask, andmask) ==
  /\ pc = "idle"
  /\ returned' = [fn |-> "none"]
  /\ args' = [fn |-> "setotp", addr |-> addr, otpaddr |-> otpaddr,
              ormask |-> ormask, andmask |-> andmask]
  /\ log' = << >>
  /\ resource_pw' = 0
  /\ buf' = << >>
  /\ authEntry' = auth
  /\ IF OtpAddrRejected(otpaddr)
     THEN pc' = "otp_ret" /\ result' = "osp_arg"
     ELSE pc' = "otp_acquire" /\ result' = "none"
  /\ UNCHANGED << flags, tries, testpw, aoosp_loglevel, enable, auth, last_cache, dirmux, out_last, out_loop >>

\* Set password for writing
OTP_Acquire(spi) ==
  /\ pc = "otp_acquire"
  /\ LET s == aoosp_send_settestpw(args.addr, aoosp_said_testpw_get, spi)
         rpw == IF s.res # "ok" THEN resource_pw ELSE 1
     IN
       /\ log' = Append(log, s)
       /\ auth' = AfterTx(auth, s)
       /\ result' = s.res
       /\ resource_pw' = rpw
       /\ pc' = OTP_After(s.res, rpw, "otp_read")
  /\ UNCHANGED << returned, flags, tries, args, testpw, aoosp_loglevel, enable, authEntry, buf, last_cache, dirmux, out_last,
                  out_loop >>

\* Mutant: the result of the read is not tested, the row is written anyway.
OTP_Read_WritesAnyway ==
  /\ pc = "otp_read"
  /\ \E spi \in SpiResults, resp \in ReadOtpRespSet(args.addr) :
       LET s == aoosp_send_readotp(args.addr, args.otpaddr, TRUE, 8, spi, resp)
           d == aoosp_des_readotp(resp, TRUE, 8)
       IN
         /\ log' = Append(log, s)
         /\ result' = s.res
         /\ buf' = IF s.res = "ok"
                   THEN [d.buf EXCEPT ![1] = MaskByte(@, args.andmask, args.ormask)]
                   ELSE << 0, 0, 0, 0, 0, 0, 0, 0 >>
         /\ pc' = "otp_write"
  /\ UNCHANGED << returned, flags, tries, args, testpw, aoosp_loglevel, enable, auth, authEntry, resource_pw, last_cache,
                  dirmux, out_last, out_loop >>

\* Read current OTP row (read is always 8 bytes), mask in the new value
OTP_Read ==
  /\ pc = "otp_read"
  /\ \E spi \in SpiResults, resp \in ReadOtpRespSet(args.addr) :
       LET s == aoosp_send_readotp(args.addr, args.otpaddr, TRUE, 8, spi, resp)
           d == aoosp_des_readotp(resp, TRUE, 8)
       IN
         /\ log' = Append(log, s)
         /\ result' = s.res
         /\ buf' = IF s.res = "ok"
                   THEN [d.buf EXCEPT ![1] = MaskByte(@, args.andmask, args.ormask)]
                   ELSE buf
         /\ pc' = OTP_After(s.res, resource_pw, "otp_write")
  /\ UNCHANGED << returned, flags, tries, args, testpw, aoosp_loglevel, enable, auth, authEntry, resource_pw, last_cache,
                  dirmux, out_last, out_loop >>

\* Write back updated row (write is always 7 bytes, only first one changed)
OTP_Write(spi) ==
  /\ pc = "otp_write"
  /\ LET s == aoosp_send_setotp(args.addr, args.otpaddr, buf, 7, spi) IN
       /\ log' = Append(log, s)
       /\ auth' = AfterTx(auth, s)
       /\ result' = s.res
       /\ pc' = IF NeedsCleanup(resource_pw) THEN "otp_free" ELSE "otp_ret"
  /\ UNCHANGED << returned, flags, tries, args, testpw, aoosp_loglevel, enable, authEntry, resource_pw, buf, last_cache,
                  dirmux, out_last, out_loop >>

\* Mutant: the cleanup telegram carries the configured password again.
OTP_Free_ResendsSecret(spi) ==
  /\ pc = "otp_free"
  /\ LET s == aoosp_send_settestpw(args.addr, aoosp_said_testpw_get, spi) IN
       /\ log' = Append(log, s)
       /\ auth' = AfterTx(auth, s)
       /\ result' = OTP_Result(result, s.res)
  /\ pc' = "otp_ret"
  /\ UNCHANGED << returned, flags, tries, args, testpw, aoosp_loglevel, enable, authEntry, resource_pw, buf, last_cache,
                  dirmux, out_last, out_loop >>

\* Clean up by freeing claimed resources (that is, unset password)
OTP_Free(spi) ==
  /\ pc = "otp_free"
  /\ LET s == aoosp_send_settestpw(args.addr, << 0, 0, 0, 0, 0, 0, 0, 0 >>, spi) IN
       /\ log' = Append(log, s)
       /\ auth' = AfterTx(auth, s)
       /\ result' = OTP_Result(result, s.res)
  /\ pc' = "otp_ret"
  /\ UNCHANGED << returned, flags, tries, args, testpw, aoosp_loglevel, enable, authEntry, resource_pw, buf, last_cache,
                  dirmux, out_last, out_loop >>

NextOtp ==
  \/ \E pw \in PwChoices : aoosp_said_testpw_set(pw)
  \/ \E addr \in AddrChoices, otpaddr \in OtpAddrChoices,
        ormask \in OrMaskChoices, andmask \in AndMaskChoices :
       OTP_Call(addr, otpaddr, ormask, andmask)
  \/ \E spi \in SpiResults : OTP_Acquire(spi)
  \/ OTP_Read
  \/ \E spi \in SpiResults : OTP_Write(spi)
  \/ \E spi \in SpiResults : OTP_Free(spi)
  \/ Return

\* The host sets the password and updates OTP bytes again and again.
SpecOtp == Init /\ [][NextOtp]_vars

---------------------------------------------------------------------------
(* Privileged OTP update: claims C1 - C6 *)

InSetOtp == args.fn = "setotp"

ZeroPw == << 0, 0, 0, 0, 0, 0, 0, 0 >>

\* The acquire call of this run returned aoresult_ok.
AcquireOk == Len(log) >= 1 /\ log[1].fn = "settestpw" /\ log[1].res = "ok"

\* The last call of this run is the cleanup SETTESTPW and it failed.
CleanupFailed ==
  /\ Len(log) >= 2
  /\ log[Len(log)].fn = "settestpw"
  /\ log[Len(log)].res # "ok"

C2_RevokeOnceAndLast ==
  (InSetOtp /\ pc = "otp_ret" /\ AcquireOk)
    => /\ Len(log) >= 2
       /\ log[Len(log)].fn = "settestpw"
       /\ log[Len(log)].arg = ZeroPw
       /\ log[Len(log)].sent
       /\ TeleAddr(log[Len(log)].tele) = args.addr
       /\ TeleTid(log[Len(log)].tele) = 95
       /\ SubSeq(log[Len(log)].tele, 4, 9) = << 0, 0, 0, 0, 0, 0 >>
       /\ Cardinality({i \in 2..Len(log) : log[i].fn = "settestpw"}) = 1

\* The write step failed and the revoke was still made.
C2_Witness ==
  /\ InSetOtp /\ pc = "otp_ret" /\ AcquireOk
  /\ Len(log) = 4 /\ log[3].fn = "setotp" /\ log[3].res = "spi_length"
  /\ log[4].fn = "settestpw"

\* The error of the earliest failing step among acquire, read and write.
FirstStepError ==
  IF log[1].res # "ok" THEN log[1].res
  ELSE IF Len(log) >= 2 /\ log[2].fn = "readotp" /\ log[2].res # "ok" THEN log[2].res
  ELSE IF Len(log) >= 3 /\ log[3].fn = "setotp" /\ log[3].res # "ok" THEN log[3].res
  ELSE "ok"

\* C3: aoosp_exec_setotp returns the error of the earliest failing step
\* among acquire, read and write, and aoresult_ok when all three ran without
\* error; the outcome of the revoke call does not change the returned value.
C3_FirstErrorReturned ==
  (InSetOtp /\ pc = "otp_ret" /\ Len(log) >= 1)
    => /\ result = FirstStepError
       /\ result = "ok" =>
            /\ Len(log) = 4
            /\ log[1].fn = "settestpw" /\ log[2].fn = "readotp" /\ log[3].fn = "setotp"
            /\ \A i \in 1..3 : log[i].res = "ok"

\* All steps succeeded, the revoke failed, and aoresult_ok is returned.
C3_Witness ==
  /\ InSetOtp /\ pc = "otp_ret" /\ result = "ok"
  /\ Len(log) = 4 /\ log[4].res = "spi_noclock"

\* C4: when the acquire step fails, the procedure returns that error at
\* once: no READOTP, no SETOTP and no revoke SETTESTPW follows.
C4_AcquireFailureReturnsAtOnce ==
  (InSetOtp /\ Len(log) >= 1 /\ log[1].res # "ok")
    => /\ pc = "otp_ret"
       /\ Len(log) = 1
       /\ result = log[1].res

\* The acquire telegram failed in the transport.
C4_Witness ==
  /\ InSetOtp /\ pc = "otp_ret" /\ Len(log) = 1
  /\ log[1].sent /\ log[1].res = "spi_noclock" /\ result = "spi_noclock"

\* C5: for an otpaddr outside 0x0D..0x1F aoosp_exec_setotp returns
\* aoresult_osp_arg and makes no call at all; for an otpaddr inside
\* 0x0D..0x1F the row check lets the run reach the acquire step.
C5_RowCheck ==
  InSetOtp =>
    /\ (args.otpaddr < 13 \/ args.otpaddr > 31)
         => (pc = "otp_ret" /\ result = "osp_arg" /\ log = << >>)
    /\ (13 <= args.otpaddr /\ args.otpaddr <= 31)
         => /\ pc \in {"otp_acquire", "otp_read", "otp_write", "otp_free", "otp_ret"}
            /\ pc # "otp_acquire" => Len(log) >= 1

\* A rejected row just above the customer area.
C5_Witness ==
  InSetOtp /\ pc = "otp_ret" /\ args.otpaddr = 32 /\ result = "osp_arg" /\ log = << >>

\* C6: when acquire and read succeeded, the SETOTP telegram is transmitted
\* for the otpaddr that was read, has 7 data bytes (frame of 12), its byte
\* for buf[0] is (old byte 0 AND andmask) OR ormask and its bytes for
\* buf[1..6] are bytes 1..6 of the row just read.
C6_WriteBackRow ==
  (InSetOtp /\ Len(log) >= 2 /\ log[1].res = "ok" /\ log[2].res = "ok"
     /\ pc # "otp_write")
    => /\ Len(log) >= 3
       /\ log[3].fn = "setotp"
       /\ log[3].sent
       /\ Len(log[3].tele) = 12
       /\ TeleTid(log[3].tele) = 89
       /\ TeleAddr(log[3].tele) = TeleAddr(log[2].tele)
       /\ D(log[3].tele, 10) = args.otpaddr
       /\ D(log[3].tele, 10) = D(log[2].tele, 3)
       /\ D(log[3].tele, 9)
            = BitOr(BitAnd(D(log[2].resp, 10), args.andmask), args.ormask)
       /\ \A i \in 1..6 : D(log[3].tele, 9 - i) = D(log[2].resp, 10 - i)

\* Old byte 0xFE, and-mask 0xFE, or-mask 0x01: 0xFF is written.
C6_Witness ==
  /\ InSetOtp /\ pc = "otp_ret" /\ Len(log) = 4
  /\ args.andmask = 254 /\ args.ormask = 1
  /\ D(log[2].resp, 10) = 254
  /\ D(log[3].tele, 9) = 255

---------------------------------------------------------------------------
(* Chain discovery: claims C7 - C10 *)

\* The names of the calls of this run, in order.
LogFns == [i \in 1..Len(log) |-> log[i].fn]

IsPrefix(p, q) == Len(p) <= Len(q) /\ \A i \in 1..Len(p) : p[i] = q[i]

RI_FullOrder ==
  << "reset", "dirmux_set_loop", "initloop", "reset", "dirmux_set_bidir", "initbidir" >>

InResetInit == args.fn = "resetinit"

\* C7: when the INITLOOP exchange returns aoresult_ok, discovery returns
\* aoresult_ok with the length of the INITLOOP response and loop=1, and the
\* run holds no second RESET, no switch of the mux to BiDir and no INITBIDIR.
C7_LoopAnswerEndsDiscovery ==
  (InResetInit /\ \E i \in 1..Len(log) : log[i].fn = "initloop" /\ log[i].res = "ok")
    => /\ LogFns = << "reset", "dirmux_set_loop", "initloop" >>
       /\ pc = "ri_ret"
       /\ result = "ok"
       /\ aoosp_exec_resetinit_last = TeleAddr(log[3].resp)
       /\ (args.last => out_last = << TeleAddr(log[3].resp) >>)
       /\ (args.loop => out_loop = << 1 >>)
       /\ dirmux = "loop"

C7_Witness ==
  /\ InResetInit /\ pc = "ri_ret" /\ result = "ok"
  /\ Len(log) = 3 /\ log[3].fn = "initloop" /\ log[3].res = "ok"
  /\ out_last = << 2 >> /\ out_loop = << 1 >>

\* C8: after an INITLOOP failing with aoresult_spi_noclock the run goes on
\* with broadcast RESET, mux to BiDir, INITBIDIR to address 0x001; an
\* INITBIDIR returning aoresult_ok makes discovery return aoresult_ok with
\* the length of that response and loop=0. In every run the calls are a
\* prefix of RESET, set-loop, INITLOOP, RESET, set-bidir, INITBIDIR, the
\* RESETs broadcast and the INITs sent to 0x001.
C8_BidirFallbackOrder ==
  InResetInit =>
    /\ IsPrefix(LogFns, RI_FullOrder)
    /\ \A i \in 1..Len(log) :
         /\ log[i].fn = "reset" => (log[i].sent /\ TeleAddr(log[i].tele) = 0
                                     /\ TeleTid(log[i].tele) = 0)
         /\ log[i].fn = "initloop" => (log[i].sent /\ TeleAddr(log[i].tele) = 1
                                        /\ TeleTid(log[i].tele) = 3)
         /\ log[i].fn = "initbidir" => (log[i].sent /\ TeleAddr(log[i].tele) = 1
                                         /\ TeleTid(log[i].tele) = 2)
    /\ (Len(log) >= 3 /\ log[3].res = "spi_noclock")
         => /\ pc \in {"ri_reset2", "ri_initbidir", "ri_ret"}
            /\ pc = "ri_initbidir" => Len(log) = 4
            /\ pc = "ri_ret" => Len(log) >= 4
            /\ (pc = "ri_ret" /\ log[4].res = "ok") => Len(log) = 6
    /\ (Len(log) = 6 /\ log[6].res = "ok")
         => /\ pc = "ri_ret"
            /\ result = "ok"
            /\ aoosp_exec_resetinit_last = TeleAddr(log[6].resp)
            /\ (args.last => out_last = << TeleAddr(log[6].resp) >>)
            /\ (args.loop => out_loop = << 0 >>)
            /\ dirmux = "bidir"

C8_Witness ==
  /\ InResetInit /\ pc = "ri_ret" /\ result = "ok"
  /\ Len(log) = 6 /\ log[3].res = "spi_noclock" /\ log[6].res = "ok"
  /\ out_last = << 2 >> /\ out_loop = << 0 >>

\* C9: discovery returns aoresult_sys_cabling exactly when both RESETs
\* succeeded and both INIT exchanges failed with aoresult_spi_noclock.
C9_CablingIff ==
  (InResetInit /\ pc = "ri_ret")
    => (result = "sys_cabling"
          <=> /\ Len(log) = 6
              /\ log[1].fn = "reset" /\ log[1].res = "ok"
              /\ log[3].fn = "initloop" /\ log[3].res = "spi_noclock"
              /\ log[4].fn = "reset" /\ log[4].res = "ok"
              /\ log[6].fn = "initbidir" /\ log[6].res = "spi_noclock")

C9_Witness ==
  InResetInit /\ pc = "ri_ret" /\ result = "sys_cabling" /\ Len(log) = 6

\* C10: an INITLOOP or INITBIDIR exchange failing with an error other than
\* aoresult_spi_noclock ends discovery at once with exactly that error: it
\* is the last call of the run and is never turned into aoresult_sys_cabling.
C10_OtherInitErrorAborts ==
  InResetInit =>
    \A i \in 1..Len(log) :
      (log[i].fn \in {"initloop", "initbidir"}
         /\ log[i].res \notin {"ok", "spi_noclock"})
        => /\ i = Len(log)
           /\ pc = "ri_ret"
           /\ result = log[i].res
           /\ result # "sys_cabling"

\* An INITLOOP answered with a corrupted frame, and an INITBIDIR that failed
\* in the transport with another error than no-clock.
C10_Witness ==
  /\ InResetInit /\ pc = "ri_ret"
  /\ \/ Len(log) = 3 /\ log[3].res = "osp_crc"
     \/ Len(log) = 6 /\ log[6].res = "spi_length"



---------------------------------------------------------------------------
(* The recorded chain length: claim C11 *)

\* The chain length in the response of the INIT that ended run l with
\* aoresult_ok (its last call).
AnsweredLast(l) == TeleAddr(l[Len(l)].resp)

\* C11: when a run of aoosp_exec_resetinit returned aoresult_ok, then at its
\* return and afterwards, until the next run starts,
\* aoosp_exec_resetinit_last() is the chain length of the INIT response of
\* that run, and it is the value the run stored through `last`.
C11_LastIsOfMostRecentRun ==
  /\ (InResetInit /\ pc = "ri_ret" /\ result = "ok")
       => /\ aoosp_exec_resetinit_last = AnsweredLast(log)
          /\ args.last => out_last = << aoosp_exec_resetinit_last >>
  /\ (pc = "idle" /\ returned.fn = "resetinit" /\ returned.result = "ok")
       => /\ aoosp_exec_resetinit_last = AnsweredLast(returned.log)
          /\ returned.out_last # << >>
               => returned.out_last = << aoosp_exec_resetinit_last >>

\* A run that found a chain of 2 over BiDir has returned.
C11_Witness ==
  /\ pc = "idle" /\ returned.fn = "resetinit" /\ returned.result = "ok"
  /\ Len(returned.log) = 6
  /\ aoosp_exec_resetinit_last = 2 /\ returned.out_last = << 2 >>


---------------------------------------------------------------------------
(* One call of a send function with arguments, transport result and        *)
(* received bytes drawn from the sets below. The send functions keep no    *)
(* state of their own, so the calls are taken from the state after         *)
(* construction.                                                           *)

\* Addresses passed as uint16_t addr: the ends of the three legal ranges,
\* the uninitialized address 0x3FF and larger values.
AddrInputs == {0, 1, 1007, 1008, 1022, 1023, 1024, 65535}

\* Bit k of a frame flipped (bit 0 is the lowest bit of data[0]).
FlipBit(tele, k) ==
  [tele EXCEPT ![(k \div 8) + 1] = BitXor(@, 2^(k % 8))]

\* A received frame carrying the telegram id of another telegram (CRC valid).
WrongTid(tele) ==
  StampCrc([i \in 1..(Len(tele) - 1) |->
              IF i = 3 THEN BitXor(tele[3], 1) ELSE tele[i]])

\* A response of node 1 with telegram id tid and the given payload.
Resp(tid, payload) == StampCrc(TeleHeader(1, Len(payload), tid) \o payload)

\* Frames aospi_txrx may hand back where f is the well-formed one: f itself,
\* f failing one check of the destructor, f failing two of them, and f with
\* one byte less.
Flawed(f) ==
  { f, Corrupt(f), WrongPreamble(f), WrongPsi(f), WrongTid(f),
    WrongPreamble(WrongPsi(f)), WrongPsi(WrongTid(f)),
    WrongPreamble(WrongTid(f)), Corrupt(WrongPreamble(f)),
    Corrupt(WrongTid(f)), SubSeq(f, 1, Len(f) - 1) }

\* f with any one of its bits flipped.
OneBitFlips(f) == { FlipBit(f, k) : k \in 0..(8 * Len(f) - 1) }

\* The call returns: its arguments and inputs are kept in args, the record
\* of its steps is the only entry of log.
SendDone(a, s) ==
  /\ pc' = "send_ret"
  /\ args' = a
  /\ log' = << s >>
  /\ result' = s.res
  /\ auth' = AfterTx(auth, s)
  /\ UNCHANGED << testpw, aoosp_loglevel, enable, authEntry, resource_pw, buf, last_cache, dirmux,
                  out_last, out_loop, returned, flags, tries >>

Send_reset ==
  /\ pc = "idle"
  /\ \E addr \in AddrInputs, spi \in SpiResults :
       SendDone([fn |-> "send", addr |-> addr, payloadsize |-> 0, tid |-> 0, spi |-> spi],
                aoosp_send_reset(addr, spi))

Send_setmult ==
  /\ pc = "idle"
  /\ \E addr \in AddrInputs, groups \in {0, 1, 21845, 32767, 32768, 65535},
        spi \in SpiResults :
       SendDone([fn |-> "send", addr |-> addr, payloadsize |-> 2, tid |-> 13, spi |-> spi,
                 groups |-> groups],
                aoosp_send_setmult(addr, groups, spi))

Send_i2cread8 ==
  /\ pc = "idle"
  /\ \E addr \in AddrInputs, daddr7 \in {0, 80, 127, 128}, raddr \in {0, 255},
        count \in {0, 1, 8, 9}, spi \in SpiResults :
       SendDone([fn |-> "send", addr |-> addr, payloadsize |-> 3, tid |-> 24, spi |-> spi,
                 daddr7 |-> daddr7, raddr |-> raddr, count |-> count],
                aoosp_send_i2cread8(addr, daddr7, raddr, count, spi))

\* The caller's buffer holds 8 bytes when it is not NULL.
Send_i2cwrite8 ==
  /\ pc = "idle"
  /\ \E addr \in AddrInputs, daddr7 \in {80, 127, 128}, raddr \in {0, 255},
        haveBuf \in BOOLEAN, count \in -1..8, spi \in SpiResults :
       SendDone([fn |-> "send", addr |-> addr, payloadsize |-> 2 + count,
                 tid |-> 25, spi |-> spi, daddr7 |-> daddr7,
                 raddr |-> raddr, haveBuf |-> haveBuf, count |-> count],
                aoosp_send_i2cwrite8(addr, daddr7, raddr, haveBuf,
                                     IF haveBuf THEN << 17, 34, 51, 68, 85, 102, 119, 136 >>
                                     ELSE << >>,
                                     count, spi))

Send_setpwm ==
  /\ pc = "idle"
  /\ \E addr \in AddrInputs, red \in {0, 21845, 32767, 32768},
        green \in {255, 10922, 32767, 65535}, blue \in {1, 32512, 32769},
        daytimes \in 0..8, spi \in SpiResults :
       SendDone([fn |-> "send", addr |-> addr, payloadsize |-> 6, tid |-> 79, spi |-> spi,
                 red |-> red, green |-> green, blue |-> blue,
                 daytimes |-> daytimes],
                aoosp_send_setpwm(addr, red, green, blue, daytimes, spi))

Send_setpwmchn ==
  /\ pc = "idle"
  /\ \E addr \in AddrInputs, chn \in 0..3, red \in {0, 65535},
        green \in {4660, 32768}, blue \in {255, 43981}, spi \in SpiResults :
       SendDone([fn |-> "send", addr |-> addr, payloadsize |-> 8, tid |-> 79, spi |-> spi,
                 chn |-> chn, red |-> red, green |-> green, blue |-> blue],
                aoosp_send_setpwmchn(addr, chn, red, green, blue, spi))

Send_seti2ccfg ==
  /\ pc = "idle"
  /\ \E addr \in AddrInputs, flags_ \in {0, 1, 2, 5, 10, 15, 16},
        speed \in {0, 1, 12, 15, 16, 255}, spi \in SpiResults :
       SendDone([fn |-> "send", addr |-> addr, payloadsize |-> 1, tid |-> 87, spi |-> spi,
                 flags |-> flags_, speed |-> speed],
                aoosp_send_seti2ccfg(addr, flags_, speed, spi))

Send_setotp ==
  /\ pc = "idle"
  /\ \E addr \in AddrInputs, otpaddr \in {0, 13, 31, 32},
        size \in {0, 6, 7, 8}, spi \in SpiResults :
       SendDone([fn |-> "send", addr |-> addr, payloadsize |-> 8, tid |-> 89, spi |-> spi,
                 otpaddr |-> otpaddr, size |-> size],
                aoosp_send_setotp(addr, otpaddr,
                                  << 1, 35, 69, 103, 137, 171, 205, 239 >>,
                                  size, spi))

Send_settestpw ==
  /\ pc = "idle"
  /\ \E addr \in AddrInputs, pw \in PwChoices, spi \in SpiResults :
       SendDone([fn |-> "send", addr |-> addr, payloadsize |-> 6, tid |-> 95, spi |-> spi,
                 pw |-> pw],
                aoosp_send_settestpw(addr, pw, spi))


\* Chain lengths the last node may report in its INIT response.
LastInputs == {1, 341, 682, 1007, 1022}

Send_initloop ==
  /\ pc = "idle"
  /\ \E addr \in AddrInputs, spi \in SpiResults, last \in LastInputs :
     \E resp \in Flawed(InitResp(3, last)) :
       SendDone([fn |-> "send", addr |-> addr, payloadsize |-> 0, tid |-> 3,
                 spi |-> spi, resp |-> resp, respsize |-> 2, outnull |-> FALSE,
                 node_last |-> last],
                aoosp_send_initloop(addr, spi, resp))

Send_initbidir ==
  /\ pc = "idle"
  /\ \E addr \in AddrInputs, spi \in SpiResults, last \in LastInputs :
     \E resp \in Flawed(InitResp(2, last)) :
       SendDone([fn |-> "send", addr |-> addr, payloadsize |-> 0, tid |-> 2,
                 spi |-> spi, resp |-> resp, respsize |-> 2, outnull |-> FALSE,
                 node_last |-> last],
                aoosp_send_initbidir(addr, spi, resp))

Send_identify ==
  /\ pc = "idle"
  /\ \E addr \in AddrInputs, haveId \in BOOLEAN, spi \in SpiResults,
        resp \in Flawed(Resp(7, << 0, 0, 0, 64 >>)) :
       SendDone([fn |-> "send", addr |-> addr, payloadsize |-> 0, tid |-> 7,
                 spi |-> spi, resp |-> resp, respsize |-> 4, outnull |-> ~haveId],
                aoosp_send_identify(addr, haveId, spi, resp))

Send_readmult ==
  /\ pc = "idle"
  /\ \E addr \in AddrInputs, haveGroups \in BOOLEAN, spi \in SpiResults,
        resp \in Flawed(Resp(12, << 18, 52 >>)) :
       SendDone([fn |-> "send", addr |-> addr, payloadsize |-> 0, tid |-> 12,
                 spi |-> spi, resp |-> resp, respsize |-> 2,
                 outnull |-> ~haveGroups],
                aoosp_send_readmult(addr, haveGroups, spi, resp))

\* An 11-byte frame carrying PSI 7 (payload of 7, CRC valid).
Payload7(tid) == StampCrc(TeleHeader(1, 7, tid) \o << 1, 2, 3, 4, 5, 6, 7 >>)

Send_readlast ==
  /\ pc = "idle"
  /\ \E addr \in AddrInputs, haveBuf \in BOOLEAN, size \in {-1, 0, 1, 3, 8, 9},
        spi \in SpiResults,
        resp \in Flawed(Resp(30, << 0, 0, 0, 0, 0, 170, 187, 204 >>))
                   \cup {Payload7(30)} :
       SendDone([fn |-> "send", addr |-> addr, payloadsize |-> 0, tid |-> 30,
                 spi |-> spi, resp |-> resp, respsize |-> 8, outnull |-> ~haveBuf,
                 size |-> size],
                aoosp_send_readlast(addr, haveBuf, size, spi, resp))

Send_readstat ==
  /\ pc = "idle"
  /\ \E addr \in AddrInputs, haveStat \in BOOLEAN, spi \in SpiResults,
        resp \in Flawed(Resp(64, << 80 >>)) \cup OneBitFlips(Resp(64, << 80 >>)) :
       SendDone([fn |-> "send", addr |-> addr, payloadsize |-> 0, tid |-> 64,
                 spi |-> spi, resp |-> resp, respsize |-> 1, outnull |-> ~haveStat],
                aoosp_send_readstat(addr, haveStat, spi, resp))

Send_readpwm ==
  /\ pc = "idle"
  /\ \E addr \in AddrInputs, haveOut \in BOOLEAN, spi \in SpiResults,
        resp \in Flawed(Resp(78, << 129, 2, 3, 4, 133, 6 >>)) :
       SendDone([fn |-> "send", addr |-> addr, payloadsize |-> 0, tid |-> 78,
                 spi |-> spi, resp |-> resp, respsize |-> 6, outnull |-> ~haveOut],
                aoosp_send_readpwm(addr, haveOut, spi, resp))

Send_readi2ccfg ==
  /\ pc = "idle"
  /\ \E addr \in AddrInputs, haveOut \in BOOLEAN, spi \in SpiResults,
        resp \in Flawed(Resp(86, << 28 >>)) \cup OneBitFlips(Resp(86, << 28 >>)) :
       SendDone([fn |-> "send", addr |-> addr, payloadsize |-> 0, tid |-> 86,
                 spi |-> spi, resp |-> resp, respsize |-> 1, outnull |-> ~haveOut],
                aoosp_send_readi2ccfg(addr, haveOut, spi, resp))

Send_readotp ==
  /\ pc = "idle"
  /\ \E addr \in AddrInputs, otpaddr \in {0, 31, 32}, haveBuf \in BOOLEAN,
        size \in {0, 1, 8, 9}, spi \in SpiResults,
        resp \in Flawed(Resp(88, << 239, 205, 171, 137, 103, 69, 35, 1 >>))
                   \cup {Payload7(88)} :
       SendDone([fn |-> "send", addr |-> addr, payloadsize |-> 1, tid |-> 88,
                 spi |-> spi, resp |-> resp, respsize |-> 8, outnull |-> ~haveBuf,
                 otpaddr |-> otpaddr, size |-> size],
                aoosp_send_readotp(addr, otpaddr, haveBuf, size, spi, resp))


\* After a delivered SETPWM / SETI2CCFG / SETMULT the host reads the register
\* back: the node answers the READ telegram with the payload bytes it was
\* sent, unless the transport fails.
ReadBackDone(s) ==
  /\ pc' = "readback_ret"
  /\ log' = Append(log, s)
  /\ result' = s.res
  /\ UNCHANGED << args, testpw, aoosp_loglevel, enable, auth, authEntry, resource_pw, buf, last_cache,
                  dirmux, out_last, out_loop, returned, flags, tries >>

\* The payload bytes of a telegram.
Payload(tele) == SubSeq(tele, 4, Len(tele) - 1)

ReadBack_pwm ==
  /\ pc = "send_ret" /\ args.tid = 79 /\ args.payloadsize = 6
  /\ log[1].res = "ok"
  /\ \E spi \in SpiResults :
       ReadBackDone(aoosp_send_readpwm(args.addr, TRUE, spi,
                                       Resp(78, Payload(log[1].tele))))

ReadBack_i2ccfg ==
  /\ pc = "send_ret" /\ args.tid = 87
  /\ log[1].res = "ok"
  /\ \E spi \in SpiResults :
       ReadBackDone(aoosp_send_readi2ccfg(args.addr, TRUE, spi,
                                          Resp(86, Payload(log[1].tele))))

ReadBack_mult ==
  /\ pc = "send_ret" /\ args.tid = 13
  /\ log[1].res = "ok"
  /\ \E spi \in SpiResults :
       ReadBackDone(aoosp_send_readmult(args.addr, TRUE, spi,
                                        Resp(12, Payload(log[1].tele))))

NextSend ==
  \/ Send_reset
  \/ Send_setmult
  \/ Send_i2cread8
  \/ Send_i2cwrite8
  \/ Send_setpwm
  \/ Send_setpwmchn
  \/ Send_seti2ccfg
  \/ Send_setotp
  \/ Send_settestpw
  \/ Send_initloop
  \/ Send_initbidir
  \/ Send_identify
  \/ Send_readmult
  \/ Send_readlast
  \/ Send_readstat
  \/ Send_readpwm
  \/ Send_readi2ccfg
  \/ Send_readotp
  \/ ReadBack_pwm
  \/ ReadBack_i2ccfg
  \/ ReadBack_mult

\* The host makes one call of a send function, and reads back what it set.
SpecSend == Init /\ [][NextSend]_vars


---------------------------------------------------------------------------
(* The send functions and the telegram format: claims C12 - C15 *)

InSend == args.fn = "send"

\* The send function called has a response (aospi_txrx and a destructor).
HasResponse == "resp" \in DOMAIN args

\* C12: every send function runs construct, transmit and destruct in that
\* order, each only if all steps before it returned aoresult_ok: the
\* transport is called exactly when the constructor succeeded, the
\* destructor runs exactly when there is a response and constructor and
\* transport succeeded, the returned result is the error of the first
\* failing step, and aoresult_ok is returned only if every step that ran
\* succeeded.
C12_StepsInOrder ==
  InSend =>
    LET s == log[1] IN
      /\ s.sent <=> s.con = "ok"
      /\ s.sent => s.spi = args.spi
      /\ s.desrun <=> (HasResponse /\ s.con = "ok" /\ args.spi = "ok")
      /\ s.desrun => s.resp = args.resp
      /\ s.res = IF s.con # "ok" THEN s.con
                 ELSE IF args.spi # "ok" THEN args.spi
                 ELSE s.des
      /\ s.res = "ok" <=> /\ s.con = "ok"
                          /\ s.sent => s.spi = "ok"
                          /\ s.desrun => s.des = "ok"

\* A READOTP whose transport call failed: sent, not decoded, and the
\* transport error returned.
C12_Witness ==
  /\ InSend /\ pc = "send_ret" /\ args.tid = 88
  /\ log[1].sent /\ ~log[1].desrun
  /\ log[1].res = "spi_noclock" /\ result = "spi_noclock"

\* C13: whenever a send function returns an argument-class error
\* (aoresult_osp_arg, aoresult_osp_addr, aoresult_outargnull), no transport
\* call was made during that call.
C13_ArgumentErrorBeforeTransport ==
  InSend =>
    (log[1].res \in {"osp_arg", "osp_addr", "outargnull"} => ~log[1].sent)

\* The address is outside broadcast, unicast and group range.
IllegalAddr(a) == ~(a = 0 \/ (1 <= a /\ a <= 1007) \/ (1008 <= a /\ a <= 1022))

\* What C14 says of every constructor but the returned error of an illegal
\* address: the three ranges are pairwise disjoint, a legal address passes
\* the address check, and with an illegal one the telegram buffer stays
\* unwritten and nothing is transmitted.
AddressCheck ==
  LET s == log[1]
      a == args.addr
  IN
    /\ ~(AOOSP_ADDR_ISBROADCAST(a) /\ AOOSP_ADDR_ISUNICAST(a))
    /\ ~(AOOSP_ADDR_ISBROADCAST(a) /\ OAOSP_ADDR_ISMULTICAST(a))
    /\ ~(AOOSP_ADDR_ISUNICAST(a) /\ OAOSP_ADDR_ISMULTICAST(a))
    /\ ~IllegalAddr(a) => s.con # "osp_addr"
    /\ IllegalAddr(a) => (s.con # "ok" /\ s.tele = << >> /\ ~s.sent /\ s.res = s.con)

\* C14 as stated: moreover, for 0x3FF and every larger value every
\* constructor returns aoresult_osp_addr.
C14_IllegalAddressGivesAddrError ==
  InSend => /\ AddressCheck
            /\ IllegalAddr(args.addr) => log[1].con = "osp_addr"

\* C14 amended: for 0x3FF and every larger value the constructor returns
\* aoresult_osp_addr, except aoosp_con_i2cwrite8 called with buf==NULL, which
\* returns aoresult_outargnull.
C14_AddressCheckedAfterNullBuf ==
  InSend =>
    /\ AddressCheck
    /\ IllegalAddr(args.addr) =>
         log[1].con = IF args.tid = 25 /\ ~args.haveBuf THEN "outargnull"
                      ELSE "osp_addr"

\* SETMULT to 0x3FF is refused, and READSTAT to group 14 is constructed.
C14_Witness ==
  /\ InSend /\ pc = "send_ret"
  /\ \/ args.tid = 13 /\ args.addr = 1023 /\ result = "osp_addr" /\ ~log[1].sent
     \/ args.tid = 64 /\ args.addr = 1022 /\ log[1].con = "ok" /\ log[1].sent

\* C15: every telegram of a successful constructor has size payload size + 4
\* within 4..12, high nibble 0xA in byte 0, the 10 address bits in the low
\* nibble of byte 0 and the top 6 bits of byte 1, the PSI min(payload size, 7)
\* in the low 2 bits of byte 1 and the top bit of byte 2, the telegram id in
\* the low 7 bits of byte 2 and the checksum of all bytes before it in its
\* last byte.
C15_TelegramLayout ==
  (InSend /\ log[1].con = "ok") =>
    LET t == log[1].tele
        psi == IF args.payloadsize < 7 THEN args.payloadsize ELSE 7
    IN
      /\ Len(t) = args.payloadsize + 4
      /\ 4 <= Len(t) /\ Len(t) <= 12
      /\ t[1] \div 16 = 10
      /\ (t[1] % 16) * 64 + (t[2] \div 4) = args.addr
      /\ (t[2] % 4) * 2 + (t[3] \div 128) = psi
      /\ t[3] % 128 = args.tid
      /\ t[Len(t)] = aoosp_crc(SubSeq(t, 1, Len(t) - 1), Len(t) - 1)

\* I2CWRITE of 6 bytes to group 14: a frame of 12 bytes with PSI 7.
C15_Witness ==
  /\ InSend /\ pc = "send_ret" /\ args.tid = 25 /\ args.count = 6
  /\ args.addr = 1022 /\ log[1].con = "ok"
  /\ Len(log[1].tele) = 12
  /\ log[1].tele[1] = 175 /\ log[1].tele[2] = 251 /\ log[1].tele[3] = 153


---------------------------------------------------------------------------
(* Decoding of responses: claims C16 - C19 *)

\* What is wrong with received frame f for a destructor expecting the given
\* payload size and telegram id, read off the bytes.
SizeBad(f, payloadsize) == Len(f) # payloadsize + 4
PsiBad(f, payloadsize) ==
  (f[2] % 4) * 2 + (f[3] \div 128) # (IF payloadsize < 7 THEN payloadsize ELSE 7)
PreambleBad(f) == f[1] \div 16 # 10
TidBad(f, tid) == f[3] % 128 # tid
CrcBad(f) == aoosp_crc(f, Len(f)) # 0

\* The size argument of READOTP / READLAST is outside 1..8.
SizeArgBad == "size" \in DOMAIN args /\ (args.size < 1 \/ args.size > 8)

\* C16 as stated: the destructor reports the earliest violated check in the
\* order preamble nibble, PSI, telegram id, checksum.
C16_PreambleCheckedFirst ==
  (InSend /\ log[1].desrun /\ ~args.outnull
     /\ ~SizeBad(log[1].resp, args.respsize))
    => LET f == log[1].resp IN
       log[1].des =
         IF PreambleBad(f) THEN "osp_preamble"
         ELSE IF PsiBad(f, args.respsize) THEN "osp_psi"
         ELSE IF TidBad(f, args.tid) THEN "osp_tid"
         ELSE IF CrcBad(f) THEN "osp_crc"
         ELSE IF SizeArgBad THEN "osp_arg"
         ELSE "ok"

\* C16 amended: the destructor reports the earliest violated check in the
\* order PSI, preamble nibble, telegram id, checksum; a missing output
\* reference and a wrong frame size are reported before these, the size
\* argument of READOTP / READLAST after them.
C16_PsiCheckedBeforePreamble ==
  (InSend /\ log[1].desrun)
    => LET f == log[1].resp IN
       log[1].des =
         IF args.outnull THEN "outargnull"
         ELSE IF SizeBad(f, args.respsize) THEN "osp_size"
         ELSE IF PsiBad(f, args.respsize) THEN "osp_psi"
         ELSE IF PreambleBad(f) THEN "osp_preamble"
         ELSE IF TidBad(f, args.tid) THEN "osp_tid"
         ELSE IF CrcBad(f) THEN "osp_crc"
         ELSE IF SizeArgBad THEN "osp_arg"
         ELSE "ok"

\* IDENTIFY answered by a frame with wrong preamble and wrong PSI.
C16_Witness ==
  /\ InSend /\ pc = "send_ret" /\ args.tid = 7 /\ log[1].desrun
  /\ PreambleBad(log[1].resp) /\ PsiBad(log[1].resp, 4)
  /\ ~SizeBad(log[1].resp, 4) /\ ~CrcBad(log[1].resp)
  /\ result = "osp_psi"

\* C17: reading back what was set yields the arguments of the set call:
\* (red, green, blue, daytimes) for SETPWM/READPWM, (flags, speed) for
\* SETI2CCFG/READI2CCFG, groups for SETMULT/READMULT, the response carrying
\* the payload bytes the constructor wrote; and the INITLOOP / INITBIDIR
\* destructors yield as `last` the address packed into bytes 0..1 of the
\* response.
C17_RoundTrip ==
  /\ (pc = "readback_ret" /\ log[2].desrun)
       => /\ log[2].res = "ok"
          /\ Payload(log[2].resp) = Payload(log[1].tele)
          /\ args.tid = 79
               => /\ log[2].out.red = args.red
                  /\ log[2].out.green = args.green
                  /\ log[2].out.blue = args.blue
                  /\ log[2].out.daytimes = args.daytimes
          /\ args.tid = 87
               => /\ log[2].out.flags = args.flags
                  /\ log[2].out.speed = args.speed
          /\ args.tid = 13 => log[2].out.groups = args.groups
  /\ (InSend /\ pc = "send_ret" /\ args.tid \in {2, 3} /\ log[1].res = "ok")
       => log[1].out.last = args.node_last

\* SETPWM with the alternating patterns 0x5555 / 0x2AAA and daytimes 0b110
\* read back.
C17_Witness ==
  /\ pc = "readback_ret" /\ args.tid = 79 /\ log[2].res = "ok"
  /\ args.red = 21845 /\ args.green = 10922 /\ args.daytimes = 6
  /\ log[2].out.red = 21845 /\ log[2].out.green = 10922
  /\ log[2].out.daytimes = 6


\* The result of the destructor of the telegram with id tid on frame f, the
\* caller passing output references and, for READOTP / READLAST, size.
DesResult(tid, f, size) ==
  CASE tid = 2 -> aoosp_des_initbidir(f).res
    [] tid = 3 -> aoosp_des_initloop(f).res
    [] tid = 7 -> aoosp_des_identify(f, TRUE).res
    [] tid = 12 -> aoosp_des_readmult(f, TRUE).res
    [] tid = 30 -> aoosp_des_readlast(f, TRUE, size).res
    [] tid = 64 -> aoosp_des_readstat(f, TRUE).res
    [] tid = 78 -> aoosp_des_readpwm(f, TRUE).res
    [] tid = 86 -> aoosp_des_readi2ccfg(f, TRUE).res
    [] tid = 88 -> aoosp_des_readotp(f, TRUE, size).res

\* The error C18 names for a flip of bit k (bit 0 the lowest bit of byte 0):
\* bits 4..7 are the preamble, bits 8, 9 and 23 the PSI, bits 16..22 the
\* telegram id; all others are address, payload or checksum bits.
FlipError(k) ==
  IF k \in 4..7 THEN "osp_preamble"
  ELSE IF k \in {8, 9, 23} THEN "osp_psi"
  ELSE IF k \in 16..22 THEN "osp_tid"
  ELSE "osp_crc"

\* C18: for every response frame a destructor accepts, every frame differing
\* from it in exactly one bit is rejected by that destructor, with
\* aoresult_osp_preamble, aoresult_osp_psi or aoresult_osp_tid when the bit
\* lies in the preamble, PSI or telegram id, and with aoresult_osp_crc when
\* it lies in the address, payload or checksum.
C18_SingleBitFlipRejected ==
  \A i \in DOMAIN log :
    (log[i].desrun /\ log[i].des = "ok")
      => \A k \in 0..(8 * Len(log[i].resp) - 1) :
           DesResult(log[i].resp[3] % 128, FlipBit(log[i].resp, k),
                     IF "size" \in DOMAIN args THEN args.size ELSE 8)
             = FlipError(k)

\* READSTAT answered by a frame with one payload bit flipped: rejected with
\* aoresult_osp_crc; and READOTP answered by a frame that is accepted.
C18_Witness ==
  /\ InSend /\ pc = "send_ret" /\ log[1].desrun
  /\ \/ /\ args.tid = 64
        /\ log[1].resp = FlipBit(Resp(64, << 80 >>), 27)
        /\ result = "osp_crc"
     \/ /\ args.tid = 88 /\ result = "ok" /\ Len(log[1].resp) = 12

\* The PSI bits of a frame.
PsiOf(f) == (f[2] % 4) * 2 + (f[3] \div 128)

\* C19: payload sizes 0..6 map to themselves and 7 and 8 both to PSI 7; the
\* constructors with a payload of 8 (SETPWMCHN, SETOTP, I2CWRITE with count
\* 6) emit a frame of 12 bytes with PSI 7; the destructors of READOTP and
\* READLAST accept PSI 7 only in a frame of 12 bytes, and reject a frame of
\* 11 bytes carrying PSI 7 with aoresult_osp_size.
C19_PsiSevenForSevenAndEight ==
  /\ \A p \in 0..8 : SIZE2PSI(p) = IF p <= 6 THEN p ELSE 7
  /\ (InSend /\ log[1].con = "ok"
        /\ \/ args.tid = 79 /\ args.payloadsize = 8
           \/ args.tid = 89
           \/ args.tid = 25 /\ args.count = 6)
       => (Len(log[1].tele) = 12 /\ PsiOf(log[1].tele) = 7)
  /\ (InSend /\ log[1].desrun /\ args.tid \in {88, 30} /\ ~args.outnull)
       => /\ (Len(log[1].resp) = 11 /\ PsiOf(log[1].resp) = 7)
               => log[1].des = "osp_size"
          /\ log[1].des = "ok"
               => (Len(log[1].resp) = 12 /\ PsiOf(log[1].resp) = 7)

\* READLAST answered by a frame of 11 bytes with PSI 7 and a valid CRC.
C19_Witness ==
  /\ InSend /\ pc = "send_ret" /\ args.tid = 30 /\ log[1].desrun
  /\ Len(log[1].resp) = 11 /\ PsiOf(log[1].resp) = 7 /\ ~CrcBad(log[1].resp)
  /\ result = "osp_size"


---------------------------------------------------------------------------
(* aoosp_exec_i2cwrite8(addr, daddr7, raddr, buf, count) and               *)
(* aoosp_exec_i2cread8(addr, daddr7, raddr, buf, count)                     *)

\* flags & AOOSP_I2CCFG_FLAGS_BUSY, flags & AOOSP_I2CCFG_FLAGS_NACK
I2C_Busy(f) == BitAnd(f, 1) # 0

\* Mutant: the INT flag is taken for the NACK flag.
I2C_Nack_IntBit(f) == BitAnd(f, 8) # 0

I2C_Nack(f) == BitAnd(f, 2) # 0

\* Mutant: the loop gives up with one try left.
I2C_Loop_OneTryLeft(f, t) == IF I2C_Busy(f) /\ t > 1 THEN "i2c_poll" ELSE "i2c_check"

\* Mutant: the loop polls two more times than its budget.
I2C_Loop_TwoMoreTries(f, t) == IF I2C_Busy(f) /\ t > -2 THEN "i2c_poll" ELSE "i2c_check"

\* while( (flags&AOOSP_I2CCFG_FLAGS_BUSY) && (tries>0) )
I2C_Loop(f, t) == IF I2C_Busy(f) /\ t > 0 THEN "i2c_poll" ELSE "i2c_check"

\* The bytes the caller of aoosp_exec_i2cwrite8 has in its buffer.
I2cBytes == << 17, 34, 51, 68, 85, 102, 119, 136 >>

\* Mutant: the procedure polls the status before it sends its telegram.
I2C_Call_PollFirst(fn, addr, daddr7, raddr, haveBuf, count) ==
  /\ pc = "idle"
  /\ pc' = "i2c_poll"
  /\ args' = [fn |-> fn, addr |-> addr, daddr7 |-> daddr7, raddr |-> raddr,
              haveBuf |-> haveBuf, count |-> count]
  /\ result' = "none"
  /\ log' = << >>
  /\ returned' = [fn |-> "none"]
  /\ authEntry' = auth
  /\ UNCHANGED << flags, tries, testpw, aoosp_loglevel, enable, auth, resource_pw, buf, last_cache,
                  dirmux, out_last, out_loop >>

I2C_Call(fn, addr, daddr7, raddr, haveBuf, count) ==
  /\ pc = "idle"
  /\ pc' = "i2c_send"
  /\ args' = [fn |-> fn, addr |-> addr, daddr7 |-> daddr7, raddr |-> raddr,
              haveBuf |-> haveBuf, count |-> count]
  /\ result' = "none"
  /\ log' = << >>
  /\ returned' = [fn |-> "none"]
  /\ authEntry' = auth
  /\ UNCHANGED << flags, tries, testpw, aoosp_loglevel, enable, auth, resource_pw, buf, last_cache,
                  dirmux, out_last, out_loop >>

\* Send an I2C write / read telegram; then flags=AOOSP_I2CCFG_FLAGS_BUSY,
\* tries=10 and the first test of the loop condition.
I2C_Send(spi) ==
  /\ pc = "i2c_send"
  /\ LET s == IF args.fn = "i2cwrite8"
              THEN aoosp_send_i2cwrite8(args.addr, args.daddr7, args.raddr,
                                        args.haveBuf,
                                        IF args.haveBuf THEN I2cBytes ELSE << >>,
                                        args.count, spi)
              ELSE aoosp_send_i2cread8(args.addr, args.daddr7, args.raddr,
                                       args.count, spi)
     IN
       /\ log' = Append(log, s)
       /\ result' = s.res
       /\ IF s.res # "ok"
          THEN pc' = "i2c_ret" /\ UNCHANGED << flags, tries >>
          ELSE flags' = 1 /\ tries' = 10 /\ pc' = I2C_Loop(1, 10)
  /\ UNCHANGED << returned, args, testpw, aoosp_loglevel, enable, auth, authEntry, resource_pw, buf,
                  last_cache, dirmux, out_last, out_loop >>

\* The READI2CCFG responses of the node: busy, busy with NACK, done, done
\* with NACK, done with the INT pin set (speed is the default 0x0C), and a
\* frame with a corrupted CRC.
I2cCfgRespSet ==
  { Resp(86, << 28 >>), Resp(86, << 60 >>), Resp(86, << 12 >>),
    Resp(86, << 44 >>), Resp(86, << 140 >>), Corrupt(Resp(86, << 12 >>)) }

\* Mutant: a failed poll is not returned, the loop goes on with the old flags.
I2C_Poll_ErrorIgnored(spi, resp) ==
  /\ pc = "i2c_poll"
  /\ LET s == aoosp_send_readi2ccfg(args.addr, TRUE, spi, resp) IN
       /\ log' = Append(log, s)
       /\ result' = s.res
       /\ flags' = IF s.res # "ok" THEN flags ELSE s.out.flags
       /\ tries' = tries - 1
       /\ pc' = I2C_Loop(flags', tries - 1)
  /\ UNCHANGED << returned, args, testpw, aoosp_loglevel, enable, auth, authEntry, resource_pw, buf,
                  last_cache, dirmux, out_last, out_loop >>

\* One round of the loop: READI2CCFG, return on error, tries--, and the next
\* test of the loop condition.
I2C_Poll(spi, resp) ==
  /\ pc = "i2c_poll"
  /\ LET s == aoosp_send_readi2ccfg(args.addr, TRUE, spi, resp) IN
       /\ log' = Append(log, s)
       /\ result' = s.res
       /\ IF s.res # "ok"
          THEN pc' = "i2c_ret" /\ UNCHANGED << flags, tries >>
          ELSE /\ flags' = s.out.flags
               /\ tries' = tries - 1
               /\ pc' = I2C_Loop(s.out.flags, tries - 1)
  /\ UNCHANGED << returned, args, testpw, aoosp_loglevel, enable, auth, authEntry, resource_pw, buf,
                  last_cache, dirmux, out_last, out_loop >>

\* Mutant: the read fetches the bytes although the device did not acknowledge.
I2C_Check_ReadLastOnNack ==
  /\ pc = "i2c_check"
  /\ IF I2C_Busy(flags) THEN result' = "dev_i2ctimeout" /\ pc' = "i2c_ret"
     ELSE IF args.fn = "i2cwrite8"
          THEN result' = (IF I2C_Nack(flags) THEN "dev_i2cnack" ELSE "ok")
               /\ pc' = "i2c_ret"
     ELSE result' = result /\ pc' = "i2c_readlast"
  /\ UNCHANGED << returned, flags, tries, args, log, testpw, aoosp_loglevel, enable, auth, authEntry,
                  resource_pw, buf, last_cache, dirmux, out_last, out_loop >>

\* Mutant: the NACK flag is tested before the BUSY flag.
I2C_Check_NackFirst ==
  /\ pc = "i2c_check"
  /\ IF I2C_Nack(flags) THEN result' = "dev_i2cnack" /\ pc' = "i2c_ret"
     ELSE IF I2C_Busy(flags) THEN result' = "dev_i2ctimeout" /\ pc' = "i2c_ret"
     ELSE IF args.fn = "i2cwrite8" THEN result' = "ok" /\ pc' = "i2c_ret"
     ELSE result' = result /\ pc' = "i2c_readlast"
  /\ UNCHANGED << returned, flags, tries, args, log, testpw, aoosp_loglevel, enable, auth, authEntry,
                  resource_pw, buf, last_cache, dirmux, out_last, out_loop >>

\* Was transaction successful
I2C_Check ==
  /\ pc = "i2c_check"
  /\ IF I2C_Busy(flags) THEN result' = "dev_i2ctimeout" /\ pc' = "i2c_ret"
     ELSE IF I2C_Nack(flags) THEN result' = "dev_i2cnack" /\ pc' = "i2c_ret"
     ELSE IF args.fn = "i2cwrite8" THEN result' = "ok" /\ pc' = "i2c_ret"
     ELSE result' = result /\ pc' = "i2c_readlast"
  /\ UNCHANGED << returned, flags, tries, args, log, testpw, aoosp_loglevel, enable, auth, authEntry,
                  resource_pw, buf, last_cache, dirmux, out_last, out_loop >>

\* The READLAST responses of the node: the bytes read, and a corrupted frame.
ReadLastRespSet ==
  { Resp(30, << 0, 0, 0, 0, 0, 170, 187, 204 >>),
    Corrupt(Resp(30, << 0, 0, 0, 0, 0, 170, 187, 204 >>)) }

\* Get the read bytes (aoosp_exec_i2cread8 only)
I2C_ReadLast(spi, resp) ==
  /\ pc = "i2c_readlast"
  /\ LET s == aoosp_send_readlast(args.addr, args.haveBuf, args.count, spi, resp) IN
       /\ log' = Append(log, s)
       /\ result' = s.res
       /\ buf' = IF s.res = "ok" THEN s.out.buf ELSE buf
  /\ pc' = "i2c_ret"
  /\ UNCHANGED << returned, flags, tries, args, testpw, aoosp_loglevel, enable, auth, authEntry,
                  resource_pw, last_cache, dirmux, out_last, out_loop >>

NextI2c ==
  \/ \E fn \in {"i2cwrite8", "i2cread8"}, addr \in {1, 1023},
        haveBuf \in BOOLEAN, count \in {2, 9} :
       I2C_Call(fn, addr, 80, 0, haveBuf, count)
  \/ \E spi \in SpiResults : I2C_Send(spi)
  \/ \E spi \in SpiResults, resp \in I2cCfgRespSet : I2C_Poll(spi, resp)
  \/ I2C_Check
  \/ \E spi \in SpiResults, resp \in ReadLastRespSet : I2C_ReadLast(spi, resp)
  \/ Return

\* The host writes to and reads from I2C devices again and again.
SpecI2c == Init /\ [][NextI2c]_vars


---------------------------------------------------------------------------
(* Polling for the end of an I2C transaction: claim C20 *)

InI2c == args.fn \in {"i2cwrite8", "i2cread8"}

\* The positions of the READI2CCFG polls in the log of this run.
Polls == {i \in DOMAIN log : log[i].fn = "readi2ccfg"}

\* Poll i was answered and reports busy / not busy.
PollBusy(i) == log[i].res = "ok" /\ I2C_Busy(log[i].out.flags)
PollDone(i) == log[i].res = "ok" /\ ~I2C_Busy(log[i].out.flags)

\* C20: polls are issued only after the I2CWRITE / I2CREAD telegram was sent
\* with aoresult_ok, and at most 10 of them; polling stops at the first poll
\* that reports not-busy (every poll but the last one reported busy); with
\* busy on the first 9 polls and not-busy without NACK on the 10th the poll
\* phase succeeds (the write returns aoresult_ok, the read goes on to
\* READLAST and returns its result); with busy on all 10 polls the call
\* returns aoresult_dev_i2ctimeout, and it returns that only then.
C20_AtMostTenPolls ==
  InI2c =>
    /\ Cardinality(Polls) <= 10
    /\ Polls # {} => (log[1].fn = args.fn /\ log[1].sent /\ log[1].res = "ok")
    /\ \A i \in Polls : i - 1 \in Polls \cup {1}
    /\ \A i \in Polls : (i + 1 \in DOMAIN log /\ log[i + 1].fn = "readi2ccfg")
                          => PollBusy(i)
    /\ \A i \in Polls : PollDone(i)
                          => (i = Len(log) \/ (i = Len(log) - 1 /\ log[Len(log)].fn = "readlast"))
    /\ (pc = "i2c_ret" /\ Cardinality(Polls) = 10 /\ \A i \in 2..10 : PollBusy(i))
         => /\ PollBusy(11) => (result = "dev_i2ctimeout" /\ Len(log) = 11)
            /\ (PollDone(11) /\ ~I2C_Nack(log[11].out.flags))
                 => IF args.fn = "i2cwrite8"
                    THEN result = "ok" /\ Len(log) = 11
                    ELSE Len(log) = 12 /\ log[12].fn = "readlast"
                         /\ result = log[12].res
    /\ (pc = "i2c_ret" /\ result = "dev_i2ctimeout")
         => (Cardinality(Polls) = 10 /\ \A i \in Polls : PollBusy(i))

\* A write whose node was busy for 9 polls and done on the 10th, and a read
\* whose node was busy on all 10 polls.
C20_Witness ==
  /\ InI2c /\ pc = "i2c_ret" /\ Len(log) = 11
  /\ \A i \in 2..10 : PollBusy(i)
  /\ \/ args.fn = "i2cwrite8" /\ PollDone(11) /\ result = "ok"
     \/ args.fn = "i2cread8" /\ PollBusy(11) /\ result = "dev_i2ctimeout"

---------------------------------------------------------------------------
(* The NACK flag, READLAST and the first telegram: claims C21, C22, C23 *)

\* Poll i was answered and its flags have bit 1, AOOSP_I2CCFG_FLAGS_NACK, set.
NackReported(i) == log[i].res = "ok" /\ BITS_SLICE(log[i].out.flags, 1, 2) = 1

\* C21 as stated: whenever a status poll of aoosp_exec_i2cwrite8 or
\* aoosp_exec_i2cread8 reports the NACK flag, the call returns
\* aoresult_dev_i2cnack.
C21_AnyNackReturnsNack ==
  (InI2c /\ pc = "i2c_ret")
    => \A i \in Polls : NackReported(i) => result = "dev_i2cnack"

\* C21 amended: whenever a status poll reports the NACK flag with the BUSY
\* flag clear, that poll is the last telegram of the call and the call
\* returns aoresult_dev_i2cnack, so NACK without BUSY on the first poll ends
\* the call after that single poll; a NACK flag reported together with BUSY
\* does not end the polling; aoresult_dev_i2cnack is returned only after a
\* last poll with NACK set and BUSY clear.
C21_NackWithoutBusyReturnsNack ==
  (InI2c /\ pc = "i2c_ret")
    => /\ \A i \in Polls : (NackReported(i) /\ PollDone(i))
                             => (result = "dev_i2cnack" /\ i = Len(log))
       /\ \A i \in Polls : (NackReported(i) /\ PollBusy(i) /\ i < 11)
                             => (i + 1 \in Polls)
       /\ result = "dev_i2cnack"
            => (Len(log) \in Polls /\ NackReported(Len(log)) /\ PollDone(Len(log)))

\* The first poll reports NACK with BUSY clear: one poll, aoresult_dev_i2cnack.
C21_Witness ==
  /\ InI2c /\ pc = "i2c_ret" /\ Len(log) = 2
  /\ 2 \in Polls /\ NackReported(2) /\ PollDone(2)
  /\ result = "dev_i2cnack"

\* The positions of the READLAST telegrams in the log of this run.
ReadLasts == {i \in DOMAIN log : log[i].fn = "readlast"}

\* C22: aoosp_exec_i2cread8 issues READLAST at most once, as its last
\* telegram, directly after the poll that reported not-busy without NACK,
\* and returns the result of READLAST; when it has returned, READLAST was
\* issued exactly when some poll reported not-busy without NACK (not when the
\* I2CREAD send failed, a poll failed, the budget ran out or NACK was
\* reported); aoosp_exec_i2cwrite8 never issues READLAST.
C22_ReadLastOnceAfterPolling ==
  InI2c =>
    /\ Cardinality(ReadLasts) <= 1
    /\ args.fn = "i2cwrite8" => ReadLasts = {}
    /\ \A i \in ReadLasts :
         /\ i = Len(log) /\ i - 1 \in Polls /\ log[i].sent
         /\ PollDone(i - 1) /\ ~NackReported(i - 1)
         /\ log[1].fn = "i2cread8" /\ log[1].res = "ok"
         /\ \A j \in 1..(i - 1) : log[j].res = "ok"
         /\ pc = "i2c_ret" /\ result = log[i].res
    /\ (args.fn = "i2cread8" /\ pc = "i2c_ret")
         => (ReadLasts # {}
               <=> \E i \in Polls : PollDone(i) /\ ~NackReported(i))

\* A read whose node was busy for two polls and then done: READLAST is the
\* fifth telegram and its bytes are handed to the caller.
C22_Witness ==
  /\ args.fn = "i2cread8" /\ pc = "i2c_ret" /\ Len(log) = 5
  /\ ReadLasts = {5} /\ PollBusy(2) /\ PollBusy(3) /\ PollDone(4)
  /\ result = "ok" /\ buf = << 187, 204 >>

\* C23 as stated: the I2CWRITE / I2CREAD telegram is sent only after an
\* IDENTIFY round-trip and a READOTP round-trip of the same call.
C23_PrecheckBeforeI2c ==
  InI2c =>
    \A i \in DOMAIN log :
      (log[i].fn \in {"i2cwrite8", "i2cread8"} /\ log[i].sent)
        => /\ \E j \in 1..(i - 1) : log[j].fn = "identify" /\ log[j].res = "ok"
           /\ \E j \in 1..(i - 1) : log[j].fn = "readotp" /\ log[j].res = "ok"

\* C23 amended: aoosp_exec_i2cwrite8 and aoosp_exec_i2cread8 make no
\* IDENTIFY and no READOTP round-trip: the I2CWRITE / I2CREAD call is the
\* first call they make, and they never return aoresult_sys_id or
\* aoresult_dev_noi2cbridge.
C23_I2cTelegramComesFirst ==
  InI2c =>
    /\ \A i \in DOMAIN log : log[i].fn \notin {"identify", "readotp"}
    /\ log # << >> => log[1].fn = args.fn
    /\ \A i \in DOMAIN log : i > 1 => log[i].fn \in {"readi2ccfg", "readlast"}
    /\ result \notin {"sys_id", "dev_noi2cbridge"}

\* A write that was sent as the first telegram and polled once with success.
C23_Witness ==
  /\ args.fn = "i2cwrite8" /\ pc = "i2c_ret" /\ Len(log) = 2
  /\ log[1].fn = "i2cwrite8" /\ log[1].sent /\ log[1].res = "ok"
  /\ PollDone(2) /\ result = "ok"

---------------------------------------------------------------------------
(* Byte counts of the I2C telegrams: claim C24 *)

\* C24: with a legal address and a buffer, aoosp_send_i2cwrite8 gets past
\* its constructor exactly when daddr7 <= 127 and count is 1, 2, 4 or 6; the
\* telegram then has a payload of 3, 4, 6 or 8 bytes (device address,
\* register address, count data bytes); a count below 1, a count of 3 or 5
\* (payload 5 or 7), a count above 6 and a device address above 127 give
\* aoresult_osp_arg and nothing is transmitted. With a legal address
\* aoosp_send_i2cread8 gets past its constructor exactly when daddr7 <= 127
\* and count is in 1..8, and returns aoresult_osp_arg without transmitting
\* otherwise.
C24_I2cByteCounts ==
  (InSend /\ pc = "send_ret" /\ ~IllegalAddr(args.addr))
    => /\ (args.tid = 25 /\ args.haveBuf)
            => LET s == log[1]
                   good == args.daddr7 <= 127 /\ args.count \in {1, 2, 4, 6}
               IN /\ s.con = "ok" <=> good
                  /\ good => /\ Len(s.tele) - 4 = args.count + 2
                             /\ Len(s.tele) - 4 \in {3, 4, 6, 8}
                             /\ s.sent
                  /\ ~good => /\ s.con = "osp_arg" /\ result = "osp_arg"
                              /\ ~s.sent /\ s.tele = << >>
       /\ args.tid = 24
            => LET s == log[1]
                   good == args.daddr7 <= 127 /\ 1 <= args.count /\ args.count <= 8
               IN /\ s.con = "ok" <=> good
                  /\ good => (s.sent /\ s.tele[6] = args.count)
                  /\ ~good => /\ s.con = "osp_arg" /\ result = "osp_arg"
                              /\ ~s.sent /\ s.tele = << >>

\* A write of 3 bytes (payload 5) is refused, a write of 6 bytes is sent as
\* a 12-byte telegram.
C24_Witness ==
  /\ InSend /\ pc = "send_ret" /\ args.tid = 25 /\ args.haveBuf
  /\ args.addr = 1 /\ args.daddr7 = 80
  /\ \/ args.count = 3 /\ result = "osp_arg" /\ ~log[1].sent
     \/ args.count = 6 /\ log[1].sent /\ Len(log[1].tele) = 12

---------------------------------------------------------------------------
(* Unicast-only commands: claim C28 *)

\* C28: for IDENTIFY (07), READLAST (1E), READSTAT (40), READI2CCFG (56) and
\* READOTP (58), whose destination is documented as unicast, the constructor
\* rejects the broadcast address 0 and the group addresses 0x3F0..0x3FE with
\* aoresult_osp_addr, and nothing is transmitted.
C28_UnicastOnlyRejectsBroadcastAndGroup ==
  (InSend /\ pc = "send_ret" /\ args.tid \in {7, 30, 64, 86, 88}
     /\ (args.addr = 0 \/ (1008 <= args.addr /\ args.addr <= 1022)))
    => (log[1].con = "osp_addr" /\ result = "osp_addr" /\ ~log[1].sent)

---------------------------------------------------------------------------
(* Diagnostic logging of the aoosp_send_xxx functions.                     *)

\* aoosp_loglevel_none, aoosp_loglevel_args, aoosp_loglevel_tele
LogLevels == {0, 1, 2}

aoosp_loglevel_set(level) ==
  /\ pc = "idle"
  /\ aoosp_loglevel' = level
  /\ UNCHANGED << pc, args, result, log, testpw, auth, authEntry, resource_pw,
                  buf, last_cache, dirmux, out_last, out_loop, returned,
                  flags, tries, enable >>

\* The log block at the end of a send function, entered after construct,
\* transport and destruct are done: at level args and above its printf reads
\* through the output pointers (*id, buf[0..size-1]) whatever the result is.
\* With a NULL output pointer that read is undefined: the processor faults
\* and the call does not return, or the read goes through and the call
\* returns its result.
LogBlock(level, s, nullRead) ==
  IF level >= 1 /\ nullRead
  THEN { [pc |-> "log_ret", result |-> s.res], [pc |-> "log_fault", result |-> "none"] }
  ELSE { [pc |-> "log_ret", result |-> s.res] }

\* One call of aoosp_send_identify, aoosp_send_readotp or aoosp_send_setmult
\* at the current log level.
Log_Send ==
  /\ pc = "idle"
  /\ \E addr \in {1, 1023}, have \in BOOLEAN, spi \in SpiResults :
       \E c \in { [send |-> "identify", nullRead |-> ~have,
                   s |-> aoosp_send_identify(addr, have, spi, resp)] :
                     resp \in Flawed(Resp(7, << 0, 0, 0, 64 >>)) }
            \cup { [send |-> "readotp", nullRead |-> ~have,
                    s |-> aoosp_send_readotp(addr, 13, have, 8, spi, resp)] :
                     resp \in Flawed(Resp(88, << 239, 205, 171, 137, 103, 69, 35, 1 >>)) }
            \cup { [send |-> "setmult", nullRead |-> FALSE,
                    s |-> aoosp_send_setmult(addr, 21845, spi)] } :
         \E o \in LogBlock(aoosp_loglevel, c.s, c.nullRead) :
           /\ pc' = o.pc
           /\ result' = o.result
           /\ args' = [fn |-> "logsend", send |-> c.send, addr |-> addr,
                       nullRead |-> c.nullRead, spi |-> spi]
           /\ log' = << c.s >>
           /\ auth' = AfterTx(auth, c.s)
  /\ UNCHANGED << testpw, aoosp_loglevel, enable, authEntry, resource_pw, buf,
                  last_cache, dirmux, out_last, out_loop, returned, flags, tries >>

NextLog ==
  \/ \E level \in LogLevels : aoosp_loglevel_set(level)
  \/ Log_Send

\* The host sets a log level and calls one send function.
SpecLog == Init /\ [][NextLog]_vars


---------------------------------------------------------------------------
(* Logging as a side channel: claim C26 *)

\* C26: a call made at any log level ends as the same call (same arguments,
\* same transport result, same received bytes, hence the same record of
\* transport calls) ends at log level none: it returns, and it returns the
\* same result.
C26_LogLevelIsSideChannel ==
  args.fn = "logsend"
    => [pc |-> pc, result |-> result] \in LogBlock(0, log[1], args.nullRead)

---------------------------------------------------------------------------
(* aoosp_exec_i2cenable_get/set, aoosp_exec_syncpinenable_get/set and       *)
(* aoosp_exec_i2cpower(addr)                                                *)

AOOSP_CUR_OK(v) == (0 <= v /\ v <= 4) \/ (8 <= v /\ v <= 11)

\* Telegram 51 SETCURCHN
aoosp_con_setcurchn(addr, chn, flags_, rcur, gcur, bcur) ==
  IF ~AOOSP_ADDR_ISOK(addr) THEN ConFail("osp_addr")
  ELSE IF BitAnd(flags_, 255 - 7) # 0 THEN ConFail("osp_arg")
  ELSE IF ~AOOSP_CUR_OK(rcur) THEN ConFail("osp_arg")
  ELSE IF ~AOOSP_CUR_OK(gcur) THEN ConFail("osp_arg")
  ELSE IF ~AOOSP_CUR_OK(bcur) THEN ConFail("osp_arg")
  ELSE IF chn # 0 /\ chn # 1 /\ chn # 2 THEN ConFail("osp_arg")
  ELSE ConOk(StampCrc(TeleHeader(addr, 3, 81)
                      \o << chn, BitOr((flags_ * 16) % 256, rcur),
                            BitOr((gcur * 16) % 256, bcur) >>))

aoosp_send_setcurchn(addr, chn, flags_, rcur, gcur, bcur, spi) ==
  SendTx("setcurchn", << chn, flags_, rcur, gcur, bcur >>,
         aoosp_con_setcurchn(addr, chn, flags_, rcur, gcur, bcur), spi)

\* Mutant: only the part field of the id is compared.
AOOSP_IDENTIFY_IS_SAID_PartOnly(id) == ((id[3] * 256 + id[4]) \div 64) % 4096 = 1

\* AOOSP_IDENTIFY_ID2MANUPART(id)==AOOSP_IDENTIFY_MANUPART_SAID, where id is
\* given by its 4 bytes, the most significant first: ((id>>6)&0x3FFFFF)==1
AOOSP_IDENTIFY_IS_SAID(id) ==
  (((id[1] % 16) * 16777216 + id[2] * 65536 + id[3] * 256 + id[4]) \div 64) = 1

\* Mutant: the and-mask of a cleared bit keeps only that bit.
EnableMasks_AndKeepsBit(otp_bit, en) ==
  [andmask |-> IF en # 0 THEN 255 ELSE otp_bit,
   ormask  |-> IF en # 0 THEN otp_bit ELSE 0]

\* uint8_t andmask = enable ? 0xFF : ~otp_bit; ormask = enable ? otp_bit : 0x00
EnableMasks(otp_bit, en) ==
  [andmask |-> IF en # 0 THEN 255 ELSE 255 - otp_bit,
   ormask  |-> IF en # 0 THEN otp_bit ELSE 0]

\* aoosp_exec_i2cenable_set (otp_bit 0x01) / aoosp_exec_syncpinenable_set
\* (otp_bit 0x04): compute the masks and enter aoosp_exec_setotp for row 0x0D.
EN_SetCall(otp_bit, addr, en) ==
  /\ pc = "idle"
  /\ returned' = [fn |-> "none"]
  /\ args' = [fn |-> "setotp", addr |-> addr, otpaddr |-> 13,
              ormask |-> EnableMasks(otp_bit, en).ormask,
              andmask |-> EnableMasks(otp_bit, en).andmask,
              otp_bit |-> otp_bit, enable |-> en]
  /\ log' = << >>
  /\ resource_pw' = 0
  /\ buf' = << >>
  /\ authEntry' = auth
  /\ IF OtpAddrRejected(13)
     THEN pc' = "otp_ret" /\ result' = "osp_arg"
     ELSE pc' = "otp_acquire" /\ result' = "none"
  /\ UNCHANGED << flags, tries, testpw, aoosp_loglevel, enable, auth,
                  last_cache, dirmux, out_last, out_loop >>

\* aoosp_exec_i2cenable_get (otp_bit 0x01) / aoosp_exec_syncpinenable_get
\* (otp_bit 0x04): if( enable==0 ) return aoresult_outargnull
EN_GetCall(otp_bit, addr, haveEnable) ==
  /\ pc = "idle"
  /\ returned' = [fn |-> "none"]
  /\ args' = [fn |-> "enable_get", addr |-> addr, otp_bit |-> otp_bit,
              haveEnable |-> haveEnable]
  /\ log' = << >>
  /\ authEntry' = auth
  /\ IF haveEnable
     THEN pc' = "en_read" /\ result' = "none"
     ELSE pc' = "en_ret" /\ result' = "outargnull"
  /\ UNCHANGED << flags, tries, testpw, aoosp_loglevel, enable, auth,
                  resource_pw, buf, last_cache, dirmux, out_last, out_loop >>

\* Read current OTP row, check the OTP bit; inside aoosp_exec_i2cpower the
\* caller goes on: return on error, aoresult_dev_noi2cbridge when !enable.
EN_Read ==
  /\ pc = "en_read"
  /\ \E spi \in SpiResults, resp \in ReadOtpRespSet(args.addr) :
       LET s == aoosp_send_readotp(args.addr, 13, TRUE, 8, spi, resp)
           en == IF s.res # "ok" THEN enable
                 ELSE IF BitAnd(s.out.buf[1], args.otp_bit) # 0 THEN 1 ELSE 0
       IN
         /\ log' = Append(log, s)
         /\ enable' = en
         /\ IF args.fn # "i2cpower" \/ s.res # "ok"
            THEN result' = s.res /\ pc' = "en_ret"
            ELSE IF en = 0
            THEN result' = "dev_noi2cbridge" /\ pc' = "en_ret"
            ELSE result' = s.res /\ pc' = "pwr_setcurchn"
  /\ UNCHANGED << returned, flags, tries, args, testpw, aoosp_loglevel, auth,
                  authEntry, resource_pw, buf, last_cache, dirmux, out_last,
                  out_loop >>

PWR_Call(addr) ==
  /\ pc = "idle"
  /\ returned' = [fn |-> "none"]
  /\ args' = [fn |-> "i2cpower", addr |-> addr, otp_bit |-> 1]
  /\ log' = << >>
  /\ authEntry' = auth
  /\ pc' = "pwr_identify"
  /\ result' = "none"
  /\ UNCHANGED << flags, tries, testpw, aoosp_loglevel, enable, auth,
                  resource_pw, buf, last_cache, dirmux, out_last, out_loop >>

\* Check (via IDENTITY) if node addr is a SAID
PWR_Identify(spi, resp) ==
  /\ pc = "pwr_identify"
  /\ LET s == aoosp_send_identify(args.addr, TRUE, spi, resp) IN
       /\ log' = Append(log, s)
       /\ IF s.res # "ok" THEN result' = s.res /\ pc' = "en_ret"
          ELSE IF ~AOOSP_IDENTIFY_IS_SAID(s.out.id)
          THEN result' = "sys_id" /\ pc' = "en_ret"
          ELSE result' = s.res /\ pc' = "en_read"
  /\ UNCHANGED << returned, flags, tries, args, testpw, aoosp_loglevel, enable,
                  auth, authEntry, resource_pw, buf, last_cache, dirmux,
                  out_last, out_loop >>

\* Power the bus: aoosp_send_setcurchn(addr, /*chan*/2, /*flags*/0, 4, 4, 4)
PWR_SetCurChn(spi) ==
  /\ pc = "pwr_setcurchn"
  /\ LET s == aoosp_send_setcurchn(args.addr, 2, 0, 4, 4, 4, spi) IN
       /\ log' = Append(log, s)
       /\ result' = s.res
       /\ pc' = "en_ret"
  /\ UNCHANGED << returned, flags, tries, args, testpw, aoosp_loglevel, enable,
                  auth, authEntry, resource_pw, buf, last_cache, dirmux,
                  out_last, out_loop >>

NextBridge ==
  \/ aoosp_said_testpw_set(NodePw \o << 0, 0 >>)
  \/ \E otp_bit \in {1, 4}, addr \in {1, 1023}, en \in {0, 1, 2} :
       EN_SetCall(otp_bit, addr, en)
  \/ \E spi \in SpiResults : OTP_Acquire(spi)
  \/ OTP_Read
  \/ \E spi \in SpiResults : OTP_Write(spi)
  \/ \E spi \in SpiResults : OTP_Free(spi)
  \/ \E otp_bit \in {1, 4}, addr \in {1, 1023}, haveEnable \in BOOLEAN :
       EN_GetCall(otp_bit, addr, haveEnable)
  \/ EN_Read
  \/ \E addr \in {1, 1023} : PWR_Call(addr)
  \/ \E spi \in SpiResults,
        resp \in { Resp(7, << 0, 0, 0, 64 >>), Resp(7, << 16, 0, 0, 65 >>),
                   Resp(7, << 0, 0, 0, 0 >>), Resp(7, << 0, 0, 1, 64 >>),
                   Resp(7, << 0, 4, 0, 64 >>),
                   Corrupt(Resp(7, << 0, 0, 0, 64 >>)) } :
       PWR_Identify(spi, resp)
  \/ \E spi \in SpiResults : PWR_SetCurChn(spi)
  \/ Return

\* The host reads and writes the two OTP flags and powers the I2C bus.
SpecBridge == Init /\ [][NextBridge]_vars

---------------------------------------------------------------------------
(* The single-flag accessors and aoosp_exec_i2cpower: claims C27, C29 *)

\* A run of aoosp_exec_i2cenable_set / aoosp_exec_syncpinenable_set.
InEnableSet == args.fn = "setotp" /\ "otp_bit" \in DOMAIN args

\* C27: aoosp_exec_i2cenable_set (bit 0x01) and aoosp_exec_syncpinenable_set
\* (bit 0x04) run aoosp_exec_setotp on row 0x0D (SETTESTPW, READOTP 0x0D,
\* SETOTP 0x0D as the third call, SETTESTPW 0); the byte 0 they write equals the byte 0 read
\* with only that bit replaced by (enable != 0) and every other bit
\* unchanged, and writing the same value to the byte written gives the same
\* byte again. The matching get reads row 0x0D with one READOTP and returns
\* 1 iff that bit is set in byte 0 of the row read, 0 otherwise.
C27_SingleBitAccessors ==
  /\ InEnableSet
       => /\ args.otpaddr = 13
          /\ \A i \in DOMAIN log : log[i].fn \in {"settestpw", "readotp", "setotp"}
          /\ \A i \in DOMAIN log :
               log[i].fn = "setotp"
                 => LET old == D(log[2].resp, 10)
                        new == D(log[i].tele, 9)
                        rest == 255 - args.otp_bit
                    IN /\ i = 3 /\ log[2].fn = "readotp" /\ log[2].res = "ok"
                       /\ D(log[2].tele, 3) = 13 /\ D(log[i].tele, 10) = 13
                       /\ BitAnd(new, rest) = BitAnd(old, rest)
                       /\ (BitAnd(new, args.otp_bit) # 0) <=> (args.enable # 0)
                       /\ BitOr(BitAnd(new, args.andmask), args.ormask) = new
  /\ (args.fn = "enable_get" /\ pc = "en_ret")
       => IF ~args.haveEnable THEN result = "outargnull" /\ log = << >>
          ELSE /\ Len(log) = 1 /\ log[1].fn = "readotp" /\ result = log[1].res
               /\ log[1].sent => D(log[1].tele, 3) = 13
               /\ result = "ok"
                    => /\ enable \in {0, 1}
                       /\ enable = 1
                            <=> BitAnd(D(log[1].resp, 10), args.otp_bit) # 0

\* SYNC_PIN_EN is cleared in a row whose byte 0 was 0xFE: 0xFA is written.
C27_Witness ==
  /\ InEnableSet /\ pc = "otp_ret" /\ Len(log) = 4 /\ result = "ok"
  /\ args.otp_bit = 4 /\ args.enable = 0
  /\ D(log[2].resp, 10) = 254 /\ D(log[3].tele, 9) = 250

\* The manufacturer+part field of the id received by IDENTIFY is 0x000001.
GotSaid(s) ==
  /\ D(s.resp, 3) % 16 = 0 /\ D(s.resp, 4) = 0 /\ D(s.resp, 5) = 0
  /\ D(s.resp, 6) \div 64 = 1

\* C29: aoosp_exec_i2cpower makes its calls in the order IDENTIFY, READOTP
\* of row 0x0D, SETCURCHN of channel 2. It returns the error of a failed
\* IDENTIFY after that call; aoresult_sys_id after IDENTIFY alone when the
\* manufacturer+part field of the id is not 0x000001; the error of a failed
\* READOTP after two calls; aoresult_dev_noi2cbridge after two calls when
\* bit 0 of byte 0 of the row is clear; and otherwise the result of
\* SETCURCHN, which is called only when both checks passed.
C29_PowerStepsInOrder ==
  args.fn = "i2cpower"
    => /\ IsPrefix(LogFns, << "identify", "readotp", "setcurchn" >>)
       /\ \A i \in DOMAIN log :
            log[i].fn = "setcurchn"
              => /\ log[1].res = "ok" /\ GotSaid(log[1])
                 /\ log[2].res = "ok" /\ D(log[2].resp, 10) % 2 = 1
                 /\ log[i].sent => /\ TeleTid(log[i].tele) = 81
                                   /\ D(log[i].tele, 3) = 2
       /\ (Len(log) >= 2 /\ log[2].sent) => D(log[2].tele, 3) = 13
       /\ pc = "en_ret"
            => /\ Len(log) >= 1
               /\ IF log[1].res # "ok"
                  THEN result = log[1].res /\ Len(log) = 1
                  ELSE IF ~GotSaid(log[1])
                  THEN result = "sys_id" /\ Len(log) = 1
                  ELSE IF log[2].res # "ok"
                  THEN result = log[2].res /\ Len(log) = 2
                  ELSE IF D(log[2].resp, 10) % 2 = 0
                  THEN result = "dev_noi2cbridge" /\ Len(log) = 2
                  ELSE result = log[3].res /\ Len(log) = 3

\* A node that answers IDENTIFY with an id of another manufacturer.
C29_Witness ==
  /\ args.fn = "i2cpower" /\ pc = "en_ret" /\ Len(log) = 1
  /\ log[1].res = "ok" /\ D(log[1].resp, 4) = 4 /\ result = "sys_id"

---------------------------------------------------------------------------
(* The cached chain length after a failed discovery: claim C30 *)

\* C30: from the entry of aoosp_exec_resetinit until the run has ended with
\* aoresult_ok, and after a run that returned an error (aoresult_sys_cabling
\* included) until the next run starts, aoosp_exec_resetinit_last() is 0 and
\* the output parameters that were passed hold last=0 and loop=-1, whatever
\* earlier runs recorded.
C30_NoStaleLengthAfterError ==
  /\ (InResetInit /\ ~(pc = "ri_ret" /\ result = "ok"))
       => /\ aoosp_exec_resetinit_last = 0
          /\ out_last = IF args.last THEN << 0 >> ELSE << >>
          /\ out_loop = IF args.loop THEN << -1 >> ELSE << >>
  /\ (pc = "idle" /\ returned.fn = "resetinit" /\ returned.result # "ok")
       => /\ aoosp_exec_resetinit_last = 0
          /\ returned.out_last \in { << >>, << 0 >> }
          /\ returned.out_loop \in { << >>, << -1 >> }

\* A run that found no chain in either direction has returned.
C30_Witness ==
  /\ pc = "idle" /\ returned.fn = "resetinit"
  /\ returned.result = "sys_cabling" /\ Len(returned.log) = 6
  /\ aoosp_exec_resetinit_last = 0
  /\ returned.out_last = << 0 >> /\ returned.out_loop = << -1 >>

---------------------------------------------------------------------------
(* All high-level procedures of aoosp_exec.cpp, run one after the other *)

NextBound ==
  \/ aoosp_said_testpw_set(NodePw \o << 0, 0 >>)
  \/ RI_Call(TRUE, TRUE)
  \/ \E spi \in SpiResults : RI_Reset1(spi)
  \/ \E spi \in SpiResults, resp \in InitRespSet(3) : RI_InitLoop(spi, resp)
  \/ \E spi \in SpiResults : RI_Reset2(spi)
  \/ \E spi \in SpiResults, resp \in InitRespSet(2) : RI_InitBidir(spi, resp)
  \/ \E otpaddr \in {13, 32} : OTP_Call(1, otpaddr, 1, 255)
  \/ \E spi \in SpiResults : OTP_Acquire(spi)
  \/ OTP_Read
  \/ \E spi \in SpiResults : OTP_Write(spi)
  \/ \E spi \in SpiResults : OTP_Free(spi)
  \/ PWR_Call(1)
  \/ \E spi \in SpiResults,
        resp \in { Resp(7, << 0, 0, 0, 64 >>), Resp(7, << 0, 0, 0, 0 >>) } :
       PWR_Identify(spi, resp)
  \/ EN_Read
  \/ \E spi \in SpiResults : PWR_SetCurChn(spi)
  \/ \E fn \in {"i2cwrite8", "i2cread8"} : I2C_Call(fn, 1, 80, 0, TRUE, 2)
  \/ \E spi \in SpiResults : I2C_Send(spi)
  \/ \E spi \in SpiResults,
        resp \in { Resp(86, << 28 >>), Resp(86, << 12 >>), Resp(86, << 44 >>),
                   Corrupt(Resp(86, << 12 >>)) } :
       I2C_Poll(spi, resp)
  \/ I2C_Check
  \/ \E spi \in SpiResults, resp \in ReadLastRespSet : I2C_ReadLast(spi, resp)
  \/ Return

\* The procedures have no blocking wait: the transport returns (with a
\* result or an error) and delay() ends, so a procedure that was called
\* keeps taking its next step. This is WF_vars(pc # "idle" /\ NextBound)
\* written out: every step of a running procedure changes pc or log and
\* every pc value other than "idle" has a step, so the action is enabled
\* exactly when pc # "idle".
SpecBound ==
  /\ Init /\ [][NextBound]_vars
  /\ ([]<>(pc = "idle") \/ []<><<pc # "idle" /\ NextBound>>_vars)

---------------------------------------------------------------------------
(* Bounded telegram exchanges: claim C25 *)

\* The telegrams this run handed to the transport.
Exchanges == {i \in DOMAIN log : log[i].sent}

\* The most telegrams a procedure exchanges.
MaxExchanges(fn) ==
  CASE fn = "resetinit" -> 4
    [] fn = "setotp"    -> 4
    [] fn = "i2cpower"  -> 3
    [] fn = "i2cwrite8" -> 11
    [] fn = "i2cread8"  -> 12
    [] OTHER            -> 0

\* All ten polls of this run were answered and every answer reports busy.
BusyThroughout == Cardinality({i \in Polls : PollBusy(i)}) = 10

C25_Counts ==
  /\ Cardinality(Exchanges) <= MaxExchanges(args.fn)
  /\ (InI2c /\ BusyThroughout)
       => /\ pc \in {"i2c_check", "i2c_ret"}
          /\ pc = "i2c_ret" => result = "dev_i2ctimeout"

\* C25: aoosp_exec_resetinit exchanges at most 4 telegrams, aoosp_exec_setotp
\* at most 4, aoosp_exec_i2cpower at most 3, aoosp_exec_i2cwrite8 at most 11
\* and aoosp_exec_i2cread8 at most 12, whatever the transport returns and the
\* node answers; a node that reports busy on all ten polls is not polled
\* again and the procedure returns aoresult_dev_i2ctimeout; and every
\* procedure that was called returns.
C25_BoundedExchanges == []C25_Counts /\ (pc # "idle" ~> pc = "idle")

\* aoosp_exec_i2cread8 has returned after its telegram, ten polls and READLAST.
C25_Witness ==
  /\ pc = "i2c_ret" /\ args.fn = "i2cread8" /\ Cardinality(Exchanges) = 12

---------------------------------------------------------------------------
(* A failing RESET in aoosp_exec_resetinit: claim C31 *)

\* A RESET of this run that did not return aoresult_ok.
FailedResets == {i \in DOMAIN log : log[i].fn = "reset" /\ log[i].res # "ok"}

C31_ResetErrorIsReturned ==
  InResetInit =>
    \A i \in FailedResets :
      /\ i = Len(log)
      /\ pc = "ri_ret"
      /\ result = log[i].res
      /\ result # "sys_cabling"
      /\ i = 1 => \A j \in DOMAIN log : log[j].fn # "dirmux_set_loop"

\* The step of the first RESET, when it fails, leaves the mux as it was.
C31_FirstResetKeepsMux ==
  (pc = "ri_reset1" /\ pc' = "ri_ret") => dirmux' = dirmux

\* C31: a RESET of aoosp_exec_resetinit that fails (aoresult_spi_noclock
\* included) is the last call of the run, no INIT telegram follows it, and the
\* run returns exactly its error, never aoresult_sys_cabling; when it is the
\* first RESET, the direction mux keeps the setting it had (no
\* aospi_dirmux_set_loop call was made).
C31_FailedResetAborts == []C31_ResetErrorIsReturned /\ [][C31_FirstResetKeepsMux]_vars

\* The first RESET failed without clock while the mux stood in BiDir from an
\* earlier run; and a second RESET failed.
C31_Witness ==
  /\ InResetInit /\ pc = "ri_ret"
  /\ \/ Len(log) = 1 /\ result = "spi_noclock" /\ dirmux = "bidir"
     \/ Len(log) = 4 /\ result = "spi_noclock" /\ log[4].fn = "reset"

---------------------------------------------------------------------------
(* The reported direction and the direction mux: claim C32 *)

\* C32: when aoosp_exec_resetinit returns aoresult_ok with loop=1 the mux
\* stands in loop mode, when it returns aoresult_ok with loop=0 the mux stands
\* in BiDir mode, and when it returns aoresult_sys_cabling the mux stands in
\* BiDir mode; the last mux call of the run is the one for that mode.
C32_DirectionAgreesWithMux ==
  (InResetInit /\ pc = "ri_ret")
    => LET muxes == {i \in DOMAIN log :
                       log[i].fn \in {"dirmux_set_loop", "dirmux_set_bidir"}}
           lastMux(fn) == \E i \in muxes : log[i].fn = fn
                                           /\ \A j \in muxes : j <= i
       IN
         /\ (result = "ok" /\ out_loop = << 1 >>)
              => dirmux = "loop" /\ lastMux("dirmux_set_loop")
         /\ (result = "ok" /\ out_loop = << 0 >>)
              => dirmux = "bidir" /\ lastMux("dirmux_set_bidir")
         /\ result = "sys_cabling"
              => dirmux = "bidir" /\ lastMux("dirmux_set_bidir")

\* Discovery found the chain in BiDir mode and reports loop=0.
C32_Witness ==
  /\ InResetInit /\ pc = "ri_ret" /\ result = "ok"
  /\ out_loop = << 0 >> /\ dirmux = "bidir" /\ log[5].fn = "dirmux_set_bidir"

---------------------------------------------------------------------------
(* The secrets of the acquire and the cleanup telegram: claim C33 *)

\* The six password bytes carried by the SETTESTPW telegram of call i.
Secret(i) == SubSeq(log[i].tele, 4, 9)

\* The run has returned and made its cleanup call (the last call of the run).
CleanupMade ==
  /\ InSetOtp /\ pc = "otp_ret"
  /\ Len(log) >= 2 /\ log[Len(log)].fn = "settestpw" /\ log[Len(log)].sent
  /\ log[1].fn = "settestpw" /\ log[1].sent

\* C33 as stated: for every configured password the secret of the cleanup
\* SETTESTPW telegram differs from the secret of the acquire SETTESTPW
\* telegram.
C33_CleanupSecretAlwaysDiffers ==
  CleanupMade => Secret(Len(log)) # Secret(1)

\* C33: the cleanup SETTESTPW telegram of aoosp_exec_setotp always carries
\* the secret 0 and the acquire telegram carries the configured password, so
\* the two secrets differ for every configured password other than 0, and
\* with the configured password 0 both telegrams carry 0.
C33_CleanupSecretDiffersUnlessZero ==
  CleanupMade
    => /\ Secret(Len(log)) = << 0, 0, 0, 0, 0, 0 >>
       /\ Secret(1) = SubSeq(aoosp_said_testpw_get, 1, 6)
       /\ aoosp_said_testpw_get # ZeroPw => Secret(Len(log)) # Secret(1)
       /\ aoosp_said_testpw_get = ZeroPw => Secret(Len(log)) = Secret(1)

\* A run with the password of the node configured: the cleanup secret differs.
C33_Witness ==
  /\ CleanupMade /\ Len(log) = 4
  /\ aoosp_said_testpw_get = NodePw \o << 0, 0 >>
  /\ Secret(1) = NodePw /\ Secret(4) # Secret(1)

---------------------------------------------------------------------------
(* No write after an early failure of aoosp_exec_setotp: claim C34 *)

\* The run returned an error of the row check, the acquire or the read step.
EarlyError ==
  /\ InSetOtp /\ pc = "otp_ret" /\ result # "ok"
  /\ \/ log = << >>
     \/ Len(log) >= 1 /\ log[1].res # "ok"
     \/ Len(log) >= 2 /\ log[2].fn = "readotp" /\ log[2].res # "ok"

\* C34: when aoosp_exec_setotp returns an error that arose in the row check,
\* the acquire step or the read step, the call made no aoosp_send_setotp call
\* and every telegram it handed to the transport is a SETTESTPW or a READOTP,
\* so no telegram of the call writes the OTP mirror of the node.
C34_NoWriteAfterEarlyError ==
  EarlyError
    => \A i \in DOMAIN log :
         /\ log[i].fn # "setotp"
         /\ log[i].sent => TeleTid(log[i].tele) \in {95, 88}

\* The read was answered with a corrupted frame: cleanup follows, no write.
C34_Witness ==
  /\ EarlyError /\ Len(log) = 3
  /\ log[2].res = "osp_crc" /\ result = "osp_crc" /\ log[3].fn = "settestpw"

---------------------------------------------------------------------------
(* A failing status poll: claim C35 *)

\* The polls of this run that returned an error (transport or destructor).
FailedPolls == {i \in Polls : log[i].res # "ok"}

\* C35: a READI2CCFG poll of aoosp_exec_i2cwrite8 / aoosp_exec_i2cread8 that
\* fails with a transport or decode error is the last call of the run (no
\* further poll, no READLAST) and the run returns exactly its error, which
\* is neither aoresult_dev_i2ctimeout nor aoresult_dev_i2cnack.
C35_PollErrorIsReturned ==
  InI2c =>
    \A i \in FailedPolls :
      /\ i = Len(log)
      /\ pc = "i2c_ret"
      /\ result = log[i].res
      /\ result \notin {"dev_i2ctimeout", "dev_i2cnack"}

\* The third poll of a read was answered with a corrupted frame after two
\* busy answers, the second of them with NACK set.
C35_Witness ==
  /\ args.fn = "i2cread8" /\ pc = "i2c_ret" /\ Len(log) = 4
  /\ PollBusy(2) /\ PollBusy(3) /\ I2C_Nack(log[3].out.flags)
  /\ log[4].res = "osp_crc" /\ result = "osp_crc"

---------------------------------------------------------------------------
(* BUSY takes precedence over NACK: claim C36 *)

\* Poll i was answered with both the BUSY and the NACK flag set.
PollBusyNack(i) == PollBusy(i) /\ I2C_Nack(log[i].out.flags)

\* C36: a poll that reports BUSY together with NACK does not end the polling
\* (unless it was the 10th poll, another poll follows it); when the 10th poll
\* still reports BUSY the run returns aoresult_dev_i2ctimeout, also with NACK
\* set; and a run returns aoresult_dev_i2cnack only when its last call is a
\* poll that reports NACK with BUSY clear.
C36_BusyBeforeNack ==
  InI2c =>
    /\ \A i \in Polls :
         (PollBusyNack(i) /\ i < 11)
           => \/ pc = "i2c_poll" /\ i = Len(log)
              \/ (i + 1) \in Polls
    /\ (pc = "i2c_ret" /\ 11 \in Polls /\ PollBusy(11))
         => result = "dev_i2ctimeout"
    /\ (pc = "i2c_ret" /\ result = "dev_i2cnack")
         => /\ Len(log) \in Polls
            /\ PollDone(Len(log))
            /\ I2C_Nack(log[Len(log)].out.flags)

\* All ten polls were busy and the tenth also reports NACK: timeout.
C36_Witness ==
  /\ InI2c /\ pc = "i2c_ret" /\ 11 \in Polls
  /\ PollBusyNack(11) /\ result = "dev_i2ctimeout"

---------------------------------------------------------------------------
(* aoosp_exec_otpdump(addr, flags) *)

\* Switch logging off temporarily: prev_log_level= aoosp_loglevel_get();
\* aoosp_loglevel_set(aoosp_loglevel_none); the local is kept in args.
DUMP_Call(addr) ==
  /\ pc = "idle"
  /\ returned' = [fn |-> "none"]
  /\ args' = [fn |-> "otpdump", addr |-> addr, prev_log_level |-> aoosp_loglevel]
  /\ aoosp_loglevel' = 0
  /\ log' = << >>
  /\ buf' = << >>
  /\ authEntry' = auth
  /\ pc' = "dump_read"
  /\ result' = "none"
  /\ UNCHANGED << flags, tries, testpw, enable, auth, resource_pw, last_cache,
                  dirmux, out_last, out_loop >>

\* Mutant: a failing read returns at once, without restoring the log level.
DUMP_Read_ReturnsInLoop ==
  /\ pc = "dump_read"
  /\ \E spi \in SpiResults, resp \in ReadOtpRespSet(args.addr) :
       LET otpaddr == 8 * Len(log)
           s == aoosp_send_readotp(args.addr, otpaddr, TRUE, 8, spi, resp)
       IN
         /\ log' = Append(log, s)
         /\ result' = s.res
         /\ buf' = IF s.res = "ok" THEN buf \o s.out.buf ELSE buf
         /\ IF s.res # "ok"
            THEN pc' = "dump_ret" /\ UNCHANGED aoosp_loglevel
            ELSE IF otpaddr + 8 >= 32
            THEN pc' = "dump_ret" /\ aoosp_loglevel' = args.prev_log_level
            ELSE pc' = "dump_read" /\ UNCHANGED aoosp_loglevel
  /\ UNCHANGED << returned, flags, tries, args, testpw, enable, auth, authEntry,
                  resource_pw, last_cache, dirmux, out_last, out_loop >>

\* One round of for( otpaddr=0x00; otpaddr<OTPSIZE; otpaddr+=OTPSTEP ): the
\* read into otp+otpaddr; after a failing read (break) and after the last
\* round, aoosp_loglevel_set(prev_log_level) and the return (the printing of
\* the fields changes no state).
DUMP_Read ==
  /\ pc = "dump_read"
  /\ \E spi \in SpiResults, resp \in ReadOtpRespSet(args.addr) :
       LET otpaddr == 8 * Len(log)
           s == aoosp_send_readotp(args.addr, otpaddr, TRUE, 8, spi, resp)
       IN
         /\ log' = Append(log, s)
         /\ result' = s.res
         /\ buf' = IF s.res = "ok" THEN buf \o s.out.buf ELSE buf
         /\ IF s.res # "ok" \/ otpaddr + 8 >= 32
            THEN pc' = "dump_ret" /\ aoosp_loglevel' = args.prev_log_level
            ELSE pc' = "dump_read" /\ UNCHANGED aoosp_loglevel
  /\ UNCHANGED << returned, flags, tries, args, testpw, enable, auth, authEntry,
                  resource_pw, last_cache, dirmux, out_last, out_loop >>

NextDump ==
  \/ \E level \in LogLevels : aoosp_loglevel_set(level)
  \/ DUMP_Call(1)
  \/ DUMP_Read
  \/ Return

\* The host sets a log level and dumps the OTP of node 1, again and again.
SpecDump == Init /\ [][NextDump]_vars

---------------------------------------------------------------------------
(* The log level across aoosp_exec_otpdump: claim C37 *)

InOtpDump == args.fn = "otpdump"

C37_DumpState ==
  InOtpDump =>
    /\ pc = "dump_read" => aoosp_loglevel = 0
    /\ pc = "dump_ret" => aoosp_loglevel = args.prev_log_level
    /\ Len(log) <= 4
    /\ \A i \in DOMAIN log :
         /\ log[i].fn = "readotp"
         /\ log[i].arg = << 8 * (i - 1) >>
         /\ log[i].sent => D(log[i].tele, 3) = 8 * (i - 1)
         /\ i < Len(log) => log[i].res = "ok"
    /\ pc = "dump_ret"
         => /\ Len(log) >= 1
            /\ result = log[Len(log)].res
            /\ result = "ok" => Len(log) = 4

\* The call step keeps the level of entry in prev_log_level.
C37_EntryLevelKept ==
  (pc = "idle" /\ pc' = "dump_read") => args'.prev_log_level = aoosp_loglevel

\* C37: aoosp_exec_otpdump reads with the log level none, reads rows of 8
\* bytes at 0x00, 0x08, 0x10, 0x18 in that order and stops after the first
\* failing read, and when it returns (all four reads ok, or a read failed)
\* the log level is the level it was called with.
C37_LogLevelRestored == []C37_DumpState /\ [][C37_EntryLevelKept]_vars

\* Called at level tele, the second read failed, the level is tele again.
C37_Witness ==
  /\ InOtpDump /\ pc = "dump_ret" /\ Len(log) = 2
  /\ result = "spi_noclock" /\ aoosp_loglevel = 2

---------------------------------------------------------------------------
(* The response destructors and the output parameters of the caller *)

\* Mutant: the fields are stored before the checks are made.
DesStore_BeforeChecks(before, d) == [f \in DOMAIN before |-> d[f]]

\* A destructor returns from each failing check before its "Get fields"
\* block, so the memory behind the output pointers (before) is written only
\* on the way to `return aoresult_ok`. d is what the destructor yields.
DesStore(before, d) ==
  IF d.res = "ok" THEN [f \in DOMAIN before |-> d[f]] ELSE before

\* One call of a destructor on a received frame: have tells whether the
\* output pointers are non-NULL; the buffers of READOTP and READLAST have 8
\* bytes and size is 8, or 0 or 9 (rejected).
Des_Run ==
  /\ pc = "idle"
  /\ \E name \in {"initbidir", "initloop", "identify", "readmult", "readlast",
                  "readstat", "readpwm", "readi2ccfg", "readotp"},
        have \in BOOLEAN, size \in {0, 8, 9} :
       LET good == CASE name = "initbidir"  -> InitResp(2, 2)
                     [] name = "initloop"   -> InitResp(3, 2)
                     [] name = "identify"   -> Resp(7, << 0, 0, 0, 64 >>)
                     [] name = "readmult"   -> Resp(12, << 18, 52 >>)
                     [] name = "readlast"   -> Resp(30, << 1, 2, 3, 4, 5, 6, 7, 8 >>)
                     [] name = "readstat"   -> Resp(64, << 80 >>)
                     [] name = "readpwm"    -> Resp(78, << 129, 2, 3, 4, 133, 6 >>)
                     [] name = "readi2ccfg" -> Resp(86, << 28 >>)
                     [] name = "readotp"    -> Resp(88, << 8, 7, 6, 5, 4, 3, 2, 1 >>)
           before == CASE name \in {"initbidir", "initloop"}
                            -> [last |-> 1000, temp |-> 200, stat |-> 201]
                       [] name = "identify"   -> [id |-> << 222, 173, 190, 239 >>]
                       [] name = "readmult"   -> [groups |-> 65000]
                       [] name \in {"readlast", "readotp"}
                            -> [buf |-> << 99, 98, 97, 96, 95, 94, 93, 92 >>]
                       [] name = "readstat"   -> [stat |-> 200]
                       [] name = "readpwm"
                            -> [red |-> 40000, green |-> 40001, blue |-> 40002,
                                daytimes |-> 200]
                       [] name = "readi2ccfg" -> [flags |-> 200, speed |-> 201]
       IN
       \E tele \in Flawed(good) :
         LET d == CASE name = "initbidir"  -> aoosp_des_initbidir(tele)
                    [] name = "initloop"   -> aoosp_des_initloop(tele)
                    [] name = "identify"   -> aoosp_des_identify(tele, have)
                    [] name = "readmult"   -> aoosp_des_readmult(tele, have)
                    [] name = "readlast"   -> aoosp_des_readlast(tele, have, size)
                    [] name = "readstat"   -> aoosp_des_readstat(tele, have)
                    [] name = "readpwm"    -> aoosp_des_readpwm(tele, have)
                    [] name = "readi2ccfg" -> aoosp_des_readi2ccfg(tele, have)
                    [] name = "readotp"    -> aoosp_des_readotp(tele, have, size)
         IN
           /\ args' = [fn |-> "des", name |-> name, tele |-> tele, have |-> have,
                       size |-> size, before |-> before]
           /\ log' = << [fn |-> name, res |-> d.res, out |-> DesStore(before, d)] >>
           /\ result' = d.res
  /\ pc' = "des_ret"
  /\ UNCHANGED << testpw, aoosp_loglevel, enable, auth, authEntry, resource_pw,
                  buf, last_cache, dirmux, out_last, out_loop, returned, flags,
                  tries >>

\* One destructor is called on one received frame.
SpecDes == Init /\ [][Des_Run]_vars

---------------------------------------------------------------------------
(* Output parameters of a failing destructor: claim C38 *)

InDes == args.fn = "des"

---------------------------------------------------------------------------
(* Byte order of OTP rows and of READLAST: claim C39 *)

\* The buffer the SETOTP calls of the send specification pass.
SetOtpBuf == << 1, 35, 69, 103, 137, 171, 205, 239 >>

\* C39: on a READOTP response that passes the checks the destructor yields,
\* for every size 1..8, buf[i] = response byte 10-i for i < size (and so does
\* the call made); a SETOTP telegram carries buf[i] in byte 9-i for i in 0..6
\* and the OTP address in byte 10; when a node returns the seven bytes
\* written in the READOTP response for the same address, the destructor
\* gives buf[0..6] as they were written, so buf[0] is the byte at the
\* addressed location in both directions; and
\* on a READLAST response that passes the checks the destructor yields, for
\* every size 1..8, buf[i] = response byte 11-size+i.
C39_OtpByteOrder ==
  InSend =>
    /\ (args.tid = 88 /\ DesCheck(args.resp, FALSE, 8, 88) = "ok")
         => /\ \A size \in 1..8 :
                 LET d == aoosp_des_readotp(args.resp, TRUE, size) IN
                   /\ d.res = "ok"
                   /\ Len(d.buf) = size
                   /\ \A i \in 0..(size - 1) : d.buf[i + 1] = D(args.resp, 10 - i)
            /\ log[1].res = "ok"
                 => log[1].out.buf
                      = [i \in 1..args.size |-> D(args.resp, 10 - (i - 1))]
    /\ (args.tid = 89 /\ log[1].con = "ok")
         => /\ Len(log[1].tele) = 12
            /\ \A i \in 0..6 : D(log[1].tele, 9 - i) = SetOtpBuf[i + 1]
            /\ D(log[1].tele, 10) = args.otpaddr
            /\ LET row == SubSeq(log[1].tele, 4, 10)
                   back == aoosp_des_readotp(Resp(88, << 0 >> \o row), TRUE, 7)
               IN back.res = "ok" /\ back.buf = SubSeq(SetOtpBuf, 1, 7)
    /\ (args.tid = 30 /\ DesCheck(args.resp, FALSE, 8, 30) = "ok")
         => /\ \A size \in 1..8 :
                 LET d == aoosp_des_readlast(args.resp, TRUE, size) IN
                   /\ d.res = "ok"
                   /\ Len(d.buf) = size
                   /\ \A i \in 0..(size - 1) :
                        d.buf[i + 1] = D(args.resp, 11 - size + i)
            /\ log[1].res = "ok"
                 => log[1].out.buf
                      = [i \in 1..args.size |-> D(args.resp, 11 - args.size + (i - 1))]

\* A whole row read: the response payload EF CD AB 89 67 45 23 01 arrives in
\* the buffer as 01 23 45 67 89 AB CD EF.
C39_Witness ==
  /\ InSend /\ args.tid = 88 /\ args.size = 8 /\ log[1].res = "ok"
  /\ SubSeq(args.resp, 4, 11) = << 239, 205, 171, 137, 103, 69, 35, 1 >>
  /\ log[1].out.buf = << 1, 35, 69, 103, 137, 171, 205, 239 >>

====
